---- MODULE Spec2Model ----
(***************************************************************************)
(* LocationFlex: the parallel import (parallel_writer.py, fast_writer.py)  *)
(* and the read benchmark (simple_reader.py) over a key-value store        *)
(* (redis_client.py).                                                      *)
(*                                                                         *)
(* Three specifications share the variables:                               *)
(*   Spec           one run_parallel_import, its Batch Writers and SIGINT  *)
(*   SpecPartition  the range computation of run_parallel_import alone,    *)
(*                  over a larger space of (target_keys, num_writers)      *)
(*   SpecRead       a SimpleReader: single lookups and the three benchmark *)
(*                  modes over an arbitrary store                          *)
(***************************************************************************)
EXTENDS Integers, Sequences, FiniteSets

(* ------------------------------ bounds --------------------------------- *)
\* run_continuous calls write_pipeline_batches(100, batch_size=50)
\* (fast_writer.py:150,172).  The model scales the two numbers down and
\* keeps a call longer than one batch.
write_count == 3
batch_size == 2
\* the number of sample records the payloads cycle through (100 in
\* fast_writer.py:78)
sample_count == 3
\* largest target_keys and num_writers of a modelled import
MaxTotalKeys == 4
MaxWriters == 2
\* batches whose pipelined request fails during one import
MaxFaults == 2
\* the range computation alone is explored further
MaxPartKeys == 9
MaxPartWriters == 9

Versions == {"v22", "v23"}
\* ids the store can hold in the model (the cursor of a correct writer stays
\* below MaxTotalKeys; the margin lets a broken one be observed)
KeyIds == 0 .. (MaxTotalKeys + write_count)

VARIABLES
  \* ---- ParallelWriter (parallel_writer.py)
  num_writers,      \* self.num_writers
  target_keys,      \* argument of run_parallel_import
  pw_running,       \* ParallelWriter.running
  opc,              \* position of run_parallel_import
  sub_i,            \* loop variable i of the submit loop
  yielded,          \* futures as_completed has already yielded
  completed_stats,  \* list of WriterStats collected
  results,          \* the returned dict ("none" before the return)
  \* ---- one FastWriter per submitted task (fast_writer.py)
  w_pc,             \* position of worker w in _create_writer_for_range
  w_start, w_end,   \* start_key, end_key passed to the task
  w_stats,          \* WriterStats returned by the task
  fw_running,       \* FastWriter.running
  fw_max,           \* FastWriter.max_daily_keys
  fw_cur,           \* FastWriter.current_key_id
  fw_written,       \* FastWriter.keys_written
  fw_skipped,       \* FastWriter.keys_skipped
  fw_target,        \* target_keys of run_continuous (0: none given)
  fw_duration,      \* whether run_continuous was given duration_seconds
  fw_timeup,        \* whether time.time() - start_time >= duration_seconds
  h_call,           \* history: <<cursor at entry, count>> of the latest
                    \* write_pipeline_batches call made directly (<<>> if none)
  l_written,        \* write_pipeline_batches: written
  l_skipped,        \* write_pipeline_batches: skipped
  l_remaining,      \* write_pipeline_batches: remaining
  l_cbs,            \* write_pipeline_batches: current_batch_size
  l_batch,          \* write_pipeline_batches: ids of batch_data, in order
  l_idx,            \* position of the individual-write fallback loop
  \* ---- the store
  store,            \* [Versions \X KeyIds -> value]
  \* ---- history (not program state)
  h_taken,          \* per worker: ids its cursor consumed, in order
  h_pipe,           \* per id: times submitted inside a pipelined request
  h_indiv,          \* per id: times submitted as an individual write
  h_pipe_ok,        \* ids whose pipelined request returned normally
  h_indiv_ok,       \* ids whose individual write succeeded
  h_counted,        \* per id: times it was counted into `written`
  h_faults,         \* batches hit by a store failure so far in the run
  h_crashed         \* workers whose run_continuous raised

pwvars == <<num_writers, target_keys, pw_running, opc, sub_i, yielded,
            completed_stats, results>>
fwvars == <<w_pc, w_start, w_end, w_stats, fw_running, fw_max, fw_cur,
            fw_written, fw_skipped, fw_target>>
lvars  == <<l_written, l_skipped, l_remaining, l_cbs, l_batch, l_idx>>
svars  == <<fw_duration, fw_timeup, h_call>>
hvars  == <<h_taken, h_pipe, h_indiv, h_pipe_ok, h_indiv_ok, h_counted,
            h_faults, h_crashed>>

VARIABLES
  \* ---- run_full_parallel_import (parallel_writer.py:157-215)
  fpc,              \* its position: "none" when run_parallel_import is
                    \* called on its own, else "first", "second",
                    \* "returned", "raised"
  v22_results,      \* the dict the first import returned ("none" before)
  final_results,    \* the returned dict ("none" before the return)
  h_stopped         \* history: whether the ParallelWriter's stop flag was
                    \* already set when the second import was entered

fivars == <<fpc, v22_results, final_results, h_stopped>>

VARIABLES
  \* ---- the readings of time.time() in the import (parallel_writer.py)
  timed,            \* whether this specification models them: if not, the
                    \* elapsed times are positive and not recorded
  now,              \* the clock, in ticks
  start_time,       \* run_parallel_import: start_time (line 98)
  total_duration,   \* run_parallel_import: total_duration (line 131)
  total_rate,       \* run_parallel_import: total_rate (line 136), the
                    \* quotient n / d kept as <<n, d>>
  w_start_time,     \* _create_writer_for_range: start_time (line 61)
  w_duration        \* the duration field of the task's WriterStats

cvars == <<timed, now, start_time, total_duration, total_rate, w_start_time,
           w_duration>>
wvars  == <<pwvars, fwvars, lvars, svars, fivars, cvars, hvars>>

\* the version the running import writes: "v22", then "v23" in the second
\* call of run_full_parallel_import
ImportVersion == IF fpc = "second" THEN "v23" ELSE "v22"

VARIABLES
  \* ---- SimpleReader (simple_reader.py)
  primary_version,  \* self.primary_version
  fallback_version, \* self.fallback_version
  \* ---- history of the lookups made against the store
  h_last,           \* the lookups of the latest call, none since a write
  h_calls,          \* lookup calls since the last write (counted up to 2)
  h_writes          \* SETEX made by other clients so far

lkvars == <<primary_version, fallback_version, h_last, h_calls, h_writes>>

VARIABLES
  \* ---- one benchmark run of a SimpleReader (simple_reader.py)
  rd_mode,          \* "seq" run_benchmark, "pipe" run_pipeline_benchmark,
                    \* "mt" run_multithreaded_pipeline_benchmark
  rd_total,         \* total_reads
  rd_threads,       \* num_threads
  rd_batch,         \* batch_size
  rd_running,       \* SimpleReader.running
  rd_handler,       \* whether a SIGINT handler that sets this reader's
                    \* running to False is installed
  rpc,              \* position of the benchmark method
  r_i,              \* loop variable of the method's current loop
  key_offset,       \* key_offset of the multi-threaded slicing
  all_key_ids,      \* the pre-generated ids
  t_pc,             \* position of reader thread t
  t_n,              \* num_reads of thread t (sequential mode)
  t_keys,           \* key_ids of thread t (pipelined mode)
  t_i,              \* loop variable i of thread t
  t_results,        \* thread_results of thread t
  results_list,     \* the shared results list
  rd_results,       \* SimpleReader.results
  rd_stats,         \* the returned ReadStats ("none" before the return)
  lock,             \* self.lock: <<>> when free, else <<holder>>, the
                    \* holder being a thread or 0, the main thread
  current_reads,    \* current_reads of the monitor loop's progress report
  h_rfaults,        \* store read failures so far in the run
  h_failed          \* the batches of run_pipeline_benchmark whose pipelined
                    \* request failed: <<0, position of the batch's first
                    \* id>>, 0 being the caller of read_keys_pipeline_batch

bvars == <<rd_mode, rd_total, rd_threads, rd_batch, rd_running, rd_handler,
           rpc, r_i,
           key_offset, all_key_ids, t_pc, t_n, t_keys, t_i, t_results,
           results_list, rd_results, rd_stats, lock, current_reads,
           h_rfaults, h_failed>>

VARIABLES
  \* ---- the request each caller of the reader waits for.  Every GET and
  \* every pipelined request blocks its caller until the server answers;
  \* caller 0 is the main thread, caller t reader thread t
  g_pc,             \* "none", or the request in flight: "pipe" the
                    \* pipelined request of a batch, "primary" / "fallback"
                    \* the GET of read_key_with_fallback
  g_ids,            \* the ids of the call in progress
  g_j,              \* the position in g_ids of the id looked up on its own
  g_res,            \* the results of the ids before it
  h_req             \* single lookups: what is recorded of the call in
                    \* progress

gvars == <<g_pc, g_ids, g_j, g_res, h_req>>
rvars  == <<lkvars, bvars, gvars>>

Workers == 1 .. num_writers

Min(a, b) == IF a < b THEN a ELSE b

RECURSIVE SumSeq(_)
SumSeq(s) == IF s = <<>> THEN 0 ELSE Head(s) + SumSeq(Tail(s))

SeqSet(s) == {s[i] : i \in 1 .. Len(s)}

(* ------------------------------ the store ------------------------------ *)
\* A stored value is absent (None) or a string.  What matters to the code is
\* the string's length and what json.loads makes of it:
\*   Empty   ""            not JSON, empty
\*   Zero    "0"           JSON, decodes to a falsy value (0, {}, [], false)
\*   Text    "abc"         not JSON: get_value returns the string itself
\*   Rec     {"a": 1}      JSON object as json.dumps writes it
\*   Packed  {"a":1}       JSON object without the separators' spaces
\* raw is the length of the stored string, dumped the length of
\* json.dumps(json.loads(string)) where the string is JSON.
None   == [kind |-> "none",   raw |-> 0, dumped |-> 0]
Empty  == [kind |-> "empty",  raw |-> 0, dumped |-> 0]
Zero   == [kind |-> "zero",   raw |-> 1, dumped |-> 1]
Text   == [kind |-> "text",   raw |-> 3, dumped |-> 3]
Rec    == [kind |-> "rec",    raw |-> 8, dumped |-> 8]
Packed == [kind |-> "packed", raw |-> 7, dumped |-> 8]

\* the payload chosen by the id itself, without the modulo
get_key_data_no_modulo(key_id) ==
  [kind |-> "rec", raw |-> 8, dumped |-> 8, sample |-> key_id]

\* the Record Payload a writer stores: sample_keys[str(key_id % 100)], a
\* json.dumps of a sample record (sampleKeys.json holds a record for each
\* of the sample_count indexes); `sample` is the index of the sample
get_key_data(key_id) ==
  [kind |-> "rec", raw |-> 8, dumped |-> 8, sample |-> key_id % sample_count]

\* config.writer.key_ttl_seconds (config.py:54)
key_ttl_seconds == 259200

\* what a writer's SETEX key ttl value leaves under the key of key_id: the
\* payload with the configured TTL (fast_writer.py:121, 131)
writer_entry(key_id) ==
  LET v == get_key_data(key_id)
  IN [kind |-> v.kind, raw |-> v.raw, dumped |-> v.dumped,
      sample |-> v.sample, ttl |-> key_ttl_seconds]

EmptyStore == [k \in Versions \X KeyIds |-> None]

\* a key that does not carry the version being imported
create_redis_key_one_version(key_id, version) == <<"v23", key_id>>

\* f"ip:{version}:{key_id}" (network_utils.py:646-648): the constant prefix
\* is dropped, the two parts of the key are kept apart as the colon keeps
\* them apart in the string (no version contains a colon)
create_redis_key_simple(key_id, version) == <<version, key_id>>

\* SETEX key ttl value
setex(st, ver, id, val) ==
  [st EXCEPT ![create_redis_key_simple(id, ver)] = val]

RECURSIVE setex_all(_, _, _)
setex_all(st, ver, ids) ==
  IF ids = <<>> THEN st
  ELSE setex_all(setex(st, ver, Head(ids), writer_entry(Head(ids))), ver, Tail(ids))

(* --------------------------- ParallelWriter ---------------------------- *)
keys_per_writer == target_keys \div num_writers
remainder == target_keys % num_writers

\* ranges that share their first id with the range before
range_start_overlap(i) == IF i = 0 THEN 0 ELSE i * keys_per_writer - 1

\* the range of the task submitted in iteration i of the submit loop
range_start(i) == i * keys_per_writer
\* the remainder is dropped
range_end_no_remainder(i) == range_start(i) + keys_per_writer

range_end(i) ==
  IF i = num_writers - 1
  THEN range_start(i) + keys_per_writer + remainder
  ELSE range_start(i) + keys_per_writer

NoStats == [writer_id |-> 0, keys_written |-> 0, keys_skipped |-> 0,
            start_key |-> 0, end_key |-> 0, version |-> "none"]

WriterStats(w, kw, ks, s, e, v) ==
  [writer_id |-> w, keys_written |-> kw, keys_skipped |-> ks,
   start_key |-> s, end_key |-> e, version |-> v]

\* the clock and the values read from it before an import of N tasks
ClockAtZero(N) ==
  /\ now = 0
  /\ start_time = 0
  /\ total_duration = 0
  /\ total_rate = <<0, 1>>
  /\ w_start_time = [w \in 1 .. N |-> 0]
  /\ w_duration = [w \in 1 .. N |-> 0]

\* run_parallel_import is not called by run_full_parallel_import
NoFullImport ==
  /\ fpc = "none"
  /\ v22_results = "none"
  /\ final_results = "none"
  /\ h_stopped = FALSE

\* a ParallelWriter(num_writers = N) about to run
\* run_parallel_import(version, target_keys = T)
ImportState(T, N) ==
  /\ target_keys = T
  /\ num_writers = N
  /\ pw_running = TRUE
  /\ opc = "start"
  /\ sub_i = 0
  /\ yielded = {}
  /\ completed_stats = <<>>
  /\ results = "none"
  /\ w_pc = [w \in 1 .. N |-> "unsubmitted"]
  /\ w_start = [w \in 1 .. N |-> 0]
  /\ w_end = [w \in 1 .. N |-> 0]
  /\ w_stats = [w \in 1 .. N |-> NoStats]
  /\ fw_running = [w \in 1 .. N |-> TRUE]
  /\ fw_max = [w \in 1 .. N |-> 0]
  /\ fw_cur = [w \in 1 .. N |-> 0]
  /\ fw_written = [w \in 1 .. N |-> 0]
  /\ fw_skipped = [w \in 1 .. N |-> 0]
  /\ fw_target = [w \in 1 .. N |-> 0]
  /\ fw_duration = [w \in 1 .. N |-> FALSE]
  /\ fw_timeup = [w \in 1 .. N |-> FALSE]
  /\ h_call = <<>>
  /\ ClockAtZero(N)
  /\ l_written = [w \in 1 .. N |-> 0]
  /\ l_skipped = [w \in 1 .. N |-> 0]
  /\ l_remaining = [w \in 1 .. N |-> 0]
  /\ l_cbs = [w \in 1 .. N |-> 0]
  /\ l_batch = [w \in 1 .. N |-> <<>>]
  /\ l_idx = [w \in 1 .. N |-> 0]
  /\ h_taken = [w \in 1 .. N |-> <<>>]
  /\ h_pipe = [k \in KeyIds |-> 0]
  /\ h_indiv = [k \in KeyIds |-> 0]
  /\ h_pipe_ok = {}
  /\ h_indiv_ok = {}
  /\ h_counted = [k \in KeyIds |-> 0]
  /\ h_faults = 0
  /\ h_crashed = {}

InitImport(T, N) ==
  /\ ImportState(T, N)
  /\ NoFullImport
  /\ timed = FALSE

\* run_parallel_import up to the submit loop: the ranges' parameters are
\* computed and the SIGINT handler is installed
PW_Start ==
  /\ opc = "start"
  /\ opc' = "submit"
  /\ sub_i' = 0
  /\ start_time' = IF timed THEN now ELSE start_time
  /\ UNCHANGED <<timed, now, total_duration, total_rate, w_start_time,
                 w_duration>>
  /\ UNCHANGED <<rvars, svars, fivars>>
  /\ UNCHANGED <<num_writers, target_keys, pw_running, yielded,
                 completed_stats, results, fwvars, lvars, store, hvars>>

\* one iteration of the submit loop: executor.submit(_create_writer_for_range,
\* i + 1, start_key, end_key, version).  The pool has num_writers threads, so
\* the task is runnable at once.
PW_Submit ==
  /\ opc = "submit"
  /\ sub_i < num_writers
  /\ w_start' = [w_start EXCEPT ![sub_i + 1] = range_start(sub_i)]
  /\ w_end' = [w_end EXCEPT ![sub_i + 1] = range_end(sub_i)]
  /\ w_pc' = [w_pc EXCEPT ![sub_i + 1] = "created"]
  /\ sub_i' = sub_i + 1
  /\ opc' = IF sub_i + 1 = num_writers THEN "collect" ELSE "submit"
  /\ UNCHANGED <<rvars, svars, fivars, cvars>>
  /\ UNCHANGED <<num_writers, target_keys, pw_running, yielded,
                 completed_stats, results, w_stats, fw_running, fw_max,
                 fw_cur, fw_written, fw_skipped, fw_target, lvars, store,
                 hvars>>

\* the collection loop if a task whose writer raised had no stats to give
PW_Collect_drop_failed(w) ==
  /\ w \in Workers
  /\ opc = "collect"
  /\ w \notin yielded
  /\ w_pc[w] = "done"
  /\ yielded' = yielded \cup {w}
  /\ IF ~pw_running
     THEN /\ opc' = "shutdown"
          /\ UNCHANGED completed_stats
     ELSE /\ completed_stats' = IF w \in h_crashed THEN completed_stats
                               ELSE Append(completed_stats, w_stats[w])
          /\ opc' = IF yielded' = Workers THEN "shutdown" ELSE "collect"
  /\ UNCHANGED <<rvars, svars, fivars, cvars>>
  /\ UNCHANGED <<num_writers, target_keys, pw_running, sub_i, results,
                 fwvars, lvars, store, hvars>>

\* one iteration of `for future in as_completed(futures)`: a finished future
\* is yielded; the loop breaks if the stop flag is down, else the task's
\* WriterStats is appended.  The loop ends when every future was yielded.
PW_Collect(w) ==
  /\ w \in Workers
  /\ opc = "collect"
  /\ w \notin yielded
  /\ w_pc[w] = "done"
  /\ yielded' = yielded \cup {w}
  /\ IF ~pw_running
     THEN /\ opc' = "shutdown"
          /\ UNCHANGED completed_stats
     ELSE /\ completed_stats' = Append(completed_stats, w_stats[w])
          /\ opc' = IF yielded' = Workers THEN "shutdown" ELSE "collect"
  /\ UNCHANGED <<rvars, svars, fivars, cvars>>
  /\ UNCHANGED <<num_writers, target_keys, pw_running, sub_i, results,
                 fwvars, lvars, store, hvars>>

\* total_written / total_duration if total_duration > 0 else 0
\* (parallel_writer.py:136), the quotient as numerator and denominator
rate(n, d) == IF d > 0 THEN <<n, d>> ELSE <<0, 1>>

\* the totals computed without waiting for the tasks (shutdown(wait=False))
PW_Return_no_wait ==
  /\ opc = "shutdown"
  /\ results' =
       [version |-> ImportVersion,
        total_keys_written |->
          SumSeq([i \in 1 .. Len(completed_stats) |-> completed_stats[i].keys_written]),
        total_keys_skipped |->
          SumSeq([i \in 1 .. Len(completed_stats) |-> completed_stats[i].keys_skipped]),
        num_writers |-> Len(completed_stats),
        writer_stats |-> completed_stats]
  /\ opc' = "returned"
  /\ IF timed
     THEN /\ total_duration' = now - start_time
          /\ total_rate' = rate(results'.total_keys_written, now - start_time)
     ELSE UNCHANGED <<total_duration, total_rate>>
  /\ UNCHANGED <<timed, now, start_time, w_start_time, w_duration>>
  /\ UNCHANGED <<rvars, svars, fivars>>
  /\ UNCHANGED <<num_writers, target_keys, pw_running, sub_i, yielded,
                 completed_stats, fwvars, lvars, store, hvars>>

\* the totals with the duration taken as the sum of the tasks' durations
PW_Return_summed ==
  /\ opc = "shutdown"
  /\ \A w \in Workers : w_pc[w] = "done"
  /\ results' =
       [version |-> ImportVersion,
        total_keys_written |->
          SumSeq([i \in 1 .. Len(completed_stats) |-> completed_stats[i].keys_written]),
        total_keys_skipped |->
          SumSeq([i \in 1 .. Len(completed_stats) |-> completed_stats[i].keys_skipped]),
        num_writers |-> Len(completed_stats),
        writer_stats |-> completed_stats]
  /\ opc' = "returned"
  /\ IF timed
     THEN /\ total_duration' =
               SumSeq([i \in 1 .. Len(completed_stats) |->
                         w_duration[completed_stats[i].writer_id]])
          /\ total_rate' = rate(results'.total_keys_written, total_duration')
     ELSE UNCHANGED <<total_duration, total_rate>>
  /\ UNCHANGED <<timed, now, start_time, w_start_time, w_duration>>
  /\ UNCHANGED <<rvars, svars, fivars>>
  /\ UNCHANGED <<num_writers, target_keys, pw_running, sub_i, yielded,
                 completed_stats, fwvars, lvars, store, hvars>>

\* leaving the `with ThreadPoolExecutor` block waits for every task
\* (shutdown(wait=True)); then total_duration is read from the clock
\* (parallel_writer.py:131) and the totals are computed and returned
PW_Return ==
  /\ opc = "shutdown"
  /\ \A w \in Workers : w_pc[w] = "done"
  /\ results' =
       [version |-> ImportVersion,
        total_keys_written |->
          SumSeq([i \in 1 .. Len(completed_stats) |-> completed_stats[i].keys_written]),
        total_keys_skipped |->
          SumSeq([i \in 1 .. Len(completed_stats) |-> completed_stats[i].keys_skipped]),
        num_writers |-> Len(completed_stats),
        writer_stats |-> completed_stats]
  /\ opc' = "returned"
  /\ IF timed
     THEN /\ total_duration' = now - start_time
          /\ total_rate' = rate(results'.total_keys_written, now - start_time)
     ELSE UNCHANGED <<total_duration, total_rate>>
  /\ UNCHANGED <<timed, now, start_time, w_start_time, w_duration>>
  /\ UNCHANGED <<rvars, svars, fivars>>
  /\ UNCHANGED <<num_writers, target_keys, pw_running, sub_i, yielded,
                 completed_stats, fwvars, lvars, store, hvars>>

\* SIGINT while run_parallel_import is active: the handler installed at
\* parallel_writer.py:96 runs setattr(self, 'running', False) on the
\* ParallelWriter.  (The FastWriters' own signal.signal calls are made in
\* pool threads, raise ValueError and install nothing.)
SIGINT ==
  /\ opc \in {"submit", "collect", "shutdown"}
  /\ pw_running
  /\ pw_running' = FALSE
  /\ UNCHANGED <<rvars, svars, fivars, cvars>>
  /\ UNCHANGED <<num_writers, target_keys, opc, sub_i, yielded,
                 completed_stats, results, fwvars, lvars, store, hvars>>

(* ------------------------ run_full_parallel_import --------------------- *)
\* only the second per-version total is reported
combined_second_only(a, b) == b

\* the combined counters, parallel_writer.py:184-185
combined(a, b) == a + b

\* run_full_parallel_import between its two calls: the first import has
\* returned v22_results, the pause is slept and run_parallel_import("v23",
\* target_keys) is entered with a new pool, new futures and new FastWriters.
\* self.running is not set again.
FI_Second ==
  /\ fpc = "first"
  /\ opc = "returned"
  /\ v22_results' = results
  /\ fpc' = "second"
  /\ h_stopped' = ~pw_running
  /\ opc' = "start"
  /\ sub_i' = 0
  /\ yielded' = {}
  /\ completed_stats' = <<>>
  /\ results' = "none"
  /\ w_pc' = [w \in Workers |-> "unsubmitted"]
  /\ w_start' = [w \in Workers |-> 0]
  /\ w_end' = [w \in Workers |-> 0]
  /\ w_stats' = [w \in Workers |-> NoStats]
  /\ fw_running' = [w \in Workers |-> TRUE]
  /\ fw_max' = [w \in Workers |-> 0]
  /\ fw_cur' = [w \in Workers |-> 0]
  /\ fw_written' = [w \in Workers |-> 0]
  /\ fw_skipped' = [w \in Workers |-> 0]
  /\ fw_target' = [w \in Workers |-> 0]
  /\ l_written' = [w \in Workers |-> 0]
  /\ l_skipped' = [w \in Workers |-> 0]
  /\ l_remaining' = [w \in Workers |-> 0]
  /\ l_cbs' = [w \in Workers |-> 0]
  /\ l_batch' = [w \in Workers |-> <<>>]
  /\ l_idx' = [w \in Workers |-> 0]
  /\ h_taken' = [w \in Workers |-> <<>>]
  /\ h_pipe' = [k \in KeyIds |-> 0]
  /\ h_indiv' = [k \in KeyIds |-> 0]
  /\ h_pipe_ok' = {}
  /\ h_indiv_ok' = {}
  /\ h_counted' = [k \in KeyIds |-> 0]
  /\ h_crashed' = {}
  /\ w_duration' = [w \in Workers |-> 0]
  /\ UNCHANGED <<timed, now, start_time, total_duration, total_rate,
                 w_start_time>>
  /\ UNCHANGED <<num_writers, target_keys, pw_running, final_results, svars,
                 store, h_faults, rvars>>

\* SIGINT between the two imports: the handler the first import installed
\* (parallel_writer.py:96) is still in place
FI_SIGINT ==
  /\ \/ fpc = "first" /\ opc = "returned"
     \/ fpc = "second" /\ opc = "start"
  /\ pw_running
  /\ pw_running' = FALSE
  /\ UNCHANGED <<rvars, svars, fivars, cvars>>
  /\ UNCHANGED <<num_writers, target_keys, opc, sub_i, yielded,
                 completed_stats, results, fwvars, lvars, store, hvars>>

\* the end of run_full_parallel_import: the combined counters and the
\* returned dict.  The estimate printed before the return divides by
\* combined_rate = total_written / overall_duration
\* (parallel_writer.py:210-211, target_keys < 66000000): with nothing
\* written that is a ZeroDivisionError and nothing is returned.
FI_Return ==
  /\ fpc = "second"
  /\ opc = "returned"
  /\ LET total_written == combined(v22_results.total_keys_written,
                                    results.total_keys_written)
         total_skipped == combined(v22_results.total_keys_skipped,
                                    results.total_keys_skipped)
     IN IF total_written = 0
        THEN /\ fpc' = "raised"
             /\ UNCHANGED final_results
        ELSE /\ fpc' = "returned"
             /\ final_results' =
                  [v22_results |-> v22_results,
                   v23_results |-> results,
                   total_keys_written |-> total_written,
                   total_keys_skipped |-> total_skipped,
                   num_writers |-> num_writers]
  /\ UNCHANGED <<v22_results, h_stopped, pwvars, fwvars, lvars, svars, cvars,
                 store, hvars, rvars>>

(* ----------------------------- FastWriter ------------------------------ *)
\* _create_writer_for_range up to the call of run_continuous: a FastWriter
\* is built with max_daily_keys = end_key, its cursor is set to start_key and
\* the target is the size of the range
FW_Create_from_zero(w) ==
  /\ w \in Workers
  /\ w_pc[w] = "created"
  /\ fw_max' = [fw_max EXCEPT ![w] = w_end[w]]
  /\ fw_cur' = [fw_cur EXCEPT ![w] = 0]
  /\ fw_target' = [fw_target EXCEPT ![w] = w_end[w] - w_start[w]]
  /\ fw_written' = [fw_written EXCEPT ![w] = 0]
  /\ fw_skipped' = [fw_skipped EXCEPT ![w] = 0]
  /\ fw_running' = [fw_running EXCEPT ![w] = TRUE]
  /\ w_pc' = [w_pc EXCEPT ![w] = "loop"]
  /\ w_start_time' = IF timed THEN [w_start_time EXCEPT ![w] = now]
                     ELSE w_start_time
  /\ UNCHANGED <<timed, now, start_time, total_duration, total_rate,
                 w_duration>>
  /\ UNCHANGED <<rvars, svars, fivars>>
  /\ UNCHANGED <<pwvars, w_start, w_end, w_stats, lvars, store, hvars>>

FW_Create(w) ==
  /\ w \in Workers
  /\ w_pc[w] = "created"
  /\ fw_max' = [fw_max EXCEPT ![w] = w_end[w]]
  /\ fw_cur' = [fw_cur EXCEPT ![w] = w_start[w]]
  /\ fw_target' = [fw_target EXCEPT ![w] = w_end[w] - w_start[w]]
  /\ fw_written' = [fw_written EXCEPT ![w] = 0]
  /\ fw_skipped' = [fw_skipped EXCEPT ![w] = 0]
  /\ fw_running' = [fw_running EXCEPT ![w] = TRUE]
  /\ w_pc' = [w_pc EXCEPT ![w] = "loop"]
  /\ w_start_time' = IF timed THEN [w_start_time EXCEPT ![w] = now]
                     ELSE w_start_time
  /\ UNCHANGED <<timed, now, start_time, total_duration, total_rate,
                 w_duration>>
  /\ UNCHANGED <<rvars, svars, fivars>>
  /\ UNCHANGED <<pwvars, w_start, w_end, w_stats, lvars, store, hvars>>

\* the WriterStats of a task whose FastWriter raised
\* (parallel_writer.py:78-80)
FailedStats(w) == WriterStats(w, 0, 0, w_start[w], w_end[w], ImportVersion)

\* The progress report (fast_writer.py:184) and print_final_stats
\* (fast_writer.py:211) divide by keys_written + keys_skipped: with nothing
\* counted that is a ZeroDivisionError, which leaves run_continuous and is
\* caught by _create_writer_for_range.  (The elapsed times they also divide
\* by are wall-clock spans of a run that slept, taken as positive.)
ZeroDivision(kw, ks) == kw + ks = 0

\* With the clock modelled, print_final_stats (fast_writer.py:205) and
\* _create_writer_for_range (parallel_writer.py:75) divide by the time
\* elapsed since the task's FastWriter was made: a ZeroDivisionError if no
\* tick has passed, caught like the one above.
ZeroElapsed(w) == timed /\ now = w_start_time[w]

\* the stopping conditions without the check of the target
ExitCondition_no_target(w) ==
  \/ ~fw_running[w]
  \/ (fw_duration[w] /\ fw_timeup[w])
  \/ fw_cur[w] >= fw_max[w]

\* the conditions that end the loop of run_continuous, fast_writer.py:161-169:
\* the stop flag, the target (a target of 0 or None is no target), the
\* duration, the end of the key space
ExitCondition(w) ==
  \/ ~fw_running[w]
  \/ (fw_target[w] # 0 /\ fw_written[w] >= fw_target[w])
  \/ (fw_duration[w] /\ fw_timeup[w])
  \/ fw_cur[w] >= fw_max[w]

\* top of `while self.running` in run_continuous.  If a stopping condition
\* holds the loop is left: print_final_stats runs and
\* _create_writer_for_range returns the task's WriterStats (zeroed ones if
\* print_final_stats raised).  Else the call
\* write_pipeline_batches(write_count, batch_size) begins.
RC_Loop(w) ==
  /\ w \in Workers
  /\ w_pc[w] = "loop"
  /\ IF ExitCondition(w)
     THEN /\ w_pc' = [w_pc EXCEPT ![w] = "done"]
          /\ IF ZeroDivision(fw_written[w], fw_skipped[w]) \/ ZeroElapsed(w)
             THEN /\ w_stats' = [w_stats EXCEPT ![w] = FailedStats(w)]
                  /\ h_crashed' = h_crashed \cup {w}
                  /\ UNCHANGED w_duration
             ELSE /\ w_stats' = [w_stats EXCEPT ![w] =
                         WriterStats(w, fw_written[w], fw_skipped[w],
                                     w_start[w], w_end[w], ImportVersion)]
                  /\ w_duration' =
                       IF timed
                       THEN [w_duration EXCEPT ![w] = now - w_start_time[w]]
                       ELSE w_duration
                  /\ UNCHANGED h_crashed
          /\ UNCHANGED lvars
     ELSE /\ w_pc' = [w_pc EXCEPT ![w] = "batch"]
          /\ l_written' = [l_written EXCEPT ![w] = 0]
          /\ l_skipped' = [l_skipped EXCEPT ![w] = 0]
          /\ l_remaining' = [l_remaining EXCEPT ![w] = write_count]
          /\ UNCHANGED <<l_cbs, l_batch, l_idx, w_stats, h_crashed,
                         w_duration>>
  /\ UNCHANGED <<timed, now, start_time, total_duration, total_rate,
                 w_start_time>>
  /\ UNCHANGED <<rvars, svars, fivars>>
  /\ UNCHANGED <<pwvars, w_start, w_end, fw_running, fw_max, fw_cur,
                 fw_written, fw_skipped, fw_target, store, h_taken, h_pipe,
                 h_indiv, h_pipe_ok, h_indiv_ok, h_counted, h_faults>>

\* the "Prepare batch" loop without its check of max_daily_keys
RECURSIVE prepare_batch_unbounded(_, _, _)
prepare_batch_unbounded(cur, max, n) ==
  IF n = 0 THEN <<>>
  ELSE <<cur>> \o prepare_batch_unbounded(cur + 1, max, n - 1)

\* one id only is taken for a batch
prepare_batch_one(cur, max, n) ==
  IF n = 0 \/ cur >= max THEN <<>> ELSE <<cur>>

\* the same ids taken from the highest down
prepare_batch_descending(cur, max, n) ==
  LET m == Min(n, max - cur)
  IN [i \in 1 .. m |-> cur + m - i]

\* the "Prepare batch" loop, fast_writer.py:100-113: up to n ids are taken
\* from the cursor, stopping at max_daily_keys
RECURSIVE prepare_batch(_, _, _)
prepare_batch(cur, max, n) ==
  IF n = 0 \/ cur >= max THEN <<>>
  ELSE <<cur>> \o prepare_batch(cur + 1, max, n - 1)

\* the batch loop with the skip decision taken for the first id of a batch
\* (should_skip_write, commented out at fast_writer.py:107-110): the id is
\* counted as skipped and not placed in the batch
WPB_Batch_skipping(w, due) ==
  /\ w \in Workers
  /\ w_pc[w] = "batch"
  /\ IF l_remaining[w] > 0 /\ fw_cur[w] < fw_max[w]
     THEN LET cbs == Min(batch_size, l_remaining[w])
              taken == prepare_batch(fw_cur[w], fw_max[w], cbs)
              ids == IF taken = <<>> THEN <<>> ELSE Tail(taken)
          IN /\ l_cbs' = [l_cbs EXCEPT ![w] = cbs]
             /\ l_batch' = [l_batch EXCEPT ![w] = ids]
             /\ l_skipped' = [l_skipped EXCEPT ![w] = l_skipped[w] + Len(taken) - Len(ids)]
             /\ fw_cur' = [fw_cur EXCEPT ![w] = fw_cur[w] + Len(taken)]
             /\ h_taken' = [h_taken EXCEPT ![w] = h_taken[w] \o taken]
             /\ IF ids # <<>>
                THEN /\ w_pc' = [w_pc EXCEPT ![w] = "pipe"]
                     /\ UNCHANGED l_remaining
                ELSE /\ l_remaining' = [l_remaining EXCEPT ![w] = l_remaining[w] - cbs]
                     /\ UNCHANGED w_pc
             /\ UNCHANGED <<fw_written, fw_skipped, l_written,
                            l_idx, w_stats, h_crashed>>
     ELSE /\ IF opc = "direct"
             THEN /\ w_pc' = [w_pc EXCEPT ![w] = "idle"]
                  /\ UNCHANGED <<fw_written, fw_skipped, w_stats, h_crashed>>
             ELSE /\ fw_written' = [fw_written EXCEPT ![w] = fw_written[w] + l_written[w]]
                  /\ fw_skipped' = [fw_skipped EXCEPT ![w] = fw_skipped[w] + l_skipped[w]]
                  /\ IF due /\ ZeroDivision(fw_written'[w], fw_skipped'[w])
                     THEN /\ w_pc' = [w_pc EXCEPT ![w] = "done"]
                          /\ w_stats' = [w_stats EXCEPT ![w] = FailedStats(w)]
                          /\ h_crashed' = h_crashed \cup {w}
                     ELSE /\ w_pc' = [w_pc EXCEPT ![w] = "loop"]
                          /\ UNCHANGED <<w_stats, h_crashed>>
          /\ UNCHANGED <<fw_cur, h_taken, lvars>>
  /\ UNCHANGED <<rvars, svars, fivars, cvars>>
  /\ UNCHANGED <<pwvars, w_start, w_end, fw_running, fw_max, fw_target,
                 store, h_pipe, h_indiv, h_pipe_ok, h_indiv_ok, h_counted,
                 h_faults>>

\* top of the while loop of write_pipeline_batches: either a batch is
\* prepared (the cursor advances over its ids) and its pipelined request is
\* about to be executed, or the call returns (written, skipped): to its
\* caller if it was called directly, else to run_continuous, which adds
\* the call's counters to the writer's (fast_writer.py:173-174), prints the
\* progress report if five seconds have passed since the last one (`due`)
\* and sleeps.
WPB_Batch(w, due) ==
  /\ w \in Workers
  /\ w_pc[w] = "batch"
  /\ IF l_remaining[w] > 0 /\ fw_cur[w] < fw_max[w]
     THEN LET cbs == Min(batch_size, l_remaining[w])
              ids == prepare_batch(fw_cur[w], fw_max[w], cbs)
          IN /\ l_cbs' = [l_cbs EXCEPT ![w] = cbs]
             /\ l_batch' = [l_batch EXCEPT ![w] = ids]
             /\ fw_cur' = [fw_cur EXCEPT ![w] = fw_cur[w] + Len(ids)]
             /\ h_taken' = [h_taken EXCEPT ![w] = h_taken[w] \o ids]
             /\ IF ids # <<>>
                THEN /\ w_pc' = [w_pc EXCEPT ![w] = "pipe"]
                     /\ UNCHANGED l_remaining
                ELSE /\ l_remaining' = [l_remaining EXCEPT ![w] = l_remaining[w] - cbs]
                     /\ UNCHANGED w_pc
             /\ UNCHANGED <<fw_written, fw_skipped, l_written, l_skipped,
                            l_idx, w_stats, h_crashed>>
     ELSE /\ IF opc = "direct"
             THEN /\ w_pc' = [w_pc EXCEPT ![w] = "idle"]
                  /\ UNCHANGED <<fw_written, fw_skipped, w_stats, h_crashed>>
             ELSE /\ fw_written' = [fw_written EXCEPT ![w] = fw_written[w] + l_written[w]]
                  /\ fw_skipped' = [fw_skipped EXCEPT ![w] = fw_skipped[w] + l_skipped[w]]
                  /\ IF due /\ ZeroDivision(fw_written'[w], fw_skipped'[w])
                     THEN /\ w_pc' = [w_pc EXCEPT ![w] = "done"]
                          /\ w_stats' = [w_stats EXCEPT ![w] = FailedStats(w)]
                          /\ h_crashed' = h_crashed \cup {w}
                     ELSE /\ w_pc' = [w_pc EXCEPT ![w] = "loop"]
                          /\ UNCHANGED <<w_stats, h_crashed>>
          /\ UNCHANGED <<fw_cur, h_taken, lvars>>
  /\ UNCHANGED <<rvars, svars, fivars, cvars>>
  /\ UNCHANGED <<pwvars, w_start, w_end, fw_running, fw_max, fw_target,
                 store, h_pipe, h_indiv, h_pipe_ok, h_indiv_ok, h_counted,
                 h_faults>>

\* write_pipeline_batches(count, batch_size) called directly on a FastWriter
\* that is not inside run_continuous (fast_writer.py:88-94): the counters of
\* the call and `remaining` are set
WPB_Call(w, count) ==
  /\ w \in Workers
  /\ opc = "direct"
  /\ w_pc[w] = "idle"
  /\ w_pc' = [w_pc EXCEPT ![w] = "batch"]
  /\ l_written' = [l_written EXCEPT ![w] = 0]
  /\ l_skipped' = [l_skipped EXCEPT ![w] = 0]
  /\ l_remaining' = [l_remaining EXCEPT ![w] = count]
  /\ h_call' = <<fw_cur[w], count>>
  /\ UNCHANGED <<l_cbs, l_batch, l_idx, fw_duration, fw_timeup>>
  /\ UNCHANGED <<rvars, fivars, cvars>>
  /\ UNCHANGED <<pwvars, w_start, w_end, w_stats, fw_running, fw_max, fw_cur,
                 fw_written, fw_skipped, fw_target, store, hvars>>

\* ids of the batch whose position is in S
Picked(ids, S) == {ids[i] : i \in S}

\* the subsequence of ids at the positions 1 .. j
Prefix(ids, j) == SubSeq(ids, 1, j)

CountPipe(h, ids) == [k \in KeyIds |-> IF k \in SeqSet(ids) THEN h[k] + 1 ELSE h[k]]

\* the store after a pipelined request whose SETEX at the positions S took
\* effect
RECURSIVE apply_setex(_, _, _, _)
apply_setex(st, ver, ids, S) ==
  IF S = {} THEN st
  ELSE LET i == CHOOSE x \in S : TRUE
       IN apply_setex(setex(st, ver, ids[i], writer_entry(ids[i])), ver, ids, S \ {i})

\* pipe.execute() returns, and a batch with a falsy result is written again
\* key by key
WPB_ExecuteReturns_retry(w, S) ==
  /\ w \in Workers
  /\ w_pc[w] = "pipe"
  /\ S \subseteq 1 .. Len(l_batch[w])
  /\ store' = apply_setex(store, ImportVersion, l_batch[w], S)
  /\ l_written' = [l_written EXCEPT ![w] = l_written[w] + Cardinality(S)]
  /\ IF S = 1 .. Len(l_batch[w])
     THEN /\ l_remaining' = [l_remaining EXCEPT ![w] = l_remaining[w] - l_cbs[w]]
          /\ w_pc' = [w_pc EXCEPT ![w] = "batch"]
          /\ UNCHANGED <<l_idx, h_faults>>
     ELSE /\ h_faults < MaxFaults
          /\ h_faults' = h_faults + 1
          /\ l_idx' = [l_idx EXCEPT ![w] = 1]
          /\ w_pc' = [w_pc EXCEPT ![w] = "fallback"]
          /\ UNCHANGED l_remaining
  /\ h_pipe' = CountPipe(h_pipe, l_batch[w])
  /\ h_pipe_ok' = h_pipe_ok \cup SeqSet(l_batch[w])
  /\ h_counted' = [k \in KeyIds |->
                     IF k \in Picked(l_batch[w], S) THEN h_counted[k] + 1
                     ELSE h_counted[k]]
  /\ UNCHANGED <<rvars, svars, fivars, cvars>>
  /\ UNCHANGED <<pwvars, w_start, w_end, w_stats, fw_running, fw_max, fw_cur,
                 fw_written, fw_skipped, fw_target, l_skipped, l_cbs, l_batch,
                 h_taken, h_indiv, h_indiv_ok, h_crashed>>

\* pipe.execute() returns: the results at the positions S are truthy and
\* counted (fast_writer.py:123-124)
WPB_ExecuteReturns(w, S) ==
  /\ w \in Workers
  /\ w_pc[w] = "pipe"
  /\ S \subseteq 1 .. Len(l_batch[w])
  /\ store' = apply_setex(store, ImportVersion, l_batch[w], S)
  /\ l_written' = [l_written EXCEPT ![w] = l_written[w] + Cardinality(S)]
  /\ l_remaining' = [l_remaining EXCEPT ![w] = l_remaining[w] - l_cbs[w]]
  /\ w_pc' = [w_pc EXCEPT ![w] = "batch"]
  /\ h_pipe' = CountPipe(h_pipe, l_batch[w])
  /\ h_pipe_ok' = h_pipe_ok \cup SeqSet(l_batch[w])
  /\ h_counted' = [k \in KeyIds |->
                     IF k \in Picked(l_batch[w], S) THEN h_counted[k] + 1
                     ELSE h_counted[k]]
  /\ IF S = 1 .. Len(l_batch[w])
     THEN UNCHANGED h_faults
     ELSE h_faults < MaxFaults /\ h_faults' = h_faults + 1
  /\ UNCHANGED <<rvars, svars, fivars, cvars>>
  /\ UNCHANGED <<pwvars, w_start, w_end, w_stats, fw_running, fw_max, fw_cur,
                 fw_written, fw_skipped, fw_target, l_skipped, l_cbs, l_batch,
                 l_idx, h_taken, h_indiv, h_indiv_ok, h_crashed>>

\* the pipelined request raises and the SETEX it had applied are counted
\* before the fallback loop starts
WPB_ExecuteRaises_counted(w, j) ==
  /\ w \in Workers
  /\ w_pc[w] = "pipe"
  /\ j \in 0 .. Len(l_batch[w])
  /\ store' = setex_all(store, ImportVersion, Prefix(l_batch[w], j))
  /\ l_written' = [l_written EXCEPT ![w] = l_written[w] + j]
  /\ l_idx' = [l_idx EXCEPT ![w] = 1]
  /\ w_pc' = [w_pc EXCEPT ![w] = "fallback"]
  /\ h_pipe' = CountPipe(h_pipe, l_batch[w])
  /\ h_counted' = [k \in KeyIds |->
                     IF k \in SeqSet(Prefix(l_batch[w], j)) THEN h_counted[k] + 1
                     ELSE h_counted[k]]
  /\ h_faults < MaxFaults
  /\ h_faults' = h_faults + 1
  /\ UNCHANGED <<rvars, svars, fivars, cvars>>
  /\ UNCHANGED <<pwvars, w_start, w_end, w_stats, fw_running, fw_max, fw_cur,
                 fw_written, fw_skipped, fw_target, l_skipped,
                 l_remaining, l_cbs, l_batch, h_taken, h_indiv, h_pipe_ok,
                 h_indiv_ok, h_crashed>>

\* the pipelined request raises (fast_writer.py:126): nothing is counted and
\* the fallback loop starts; the pipeline is not transactional, so the first
\* j SETEX may have taken effect
WPB_ExecuteRaises(w, j) ==
  /\ w \in Workers
  /\ w_pc[w] = "pipe"
  /\ j \in 0 .. Len(l_batch[w])
  /\ store' = setex_all(store, ImportVersion, Prefix(l_batch[w], j))
  /\ l_idx' = [l_idx EXCEPT ![w] = 1]
  /\ w_pc' = [w_pc EXCEPT ![w] = "fallback"]
  /\ h_pipe' = CountPipe(h_pipe, l_batch[w])
  /\ h_faults < MaxFaults
  /\ h_faults' = h_faults + 1
  /\ UNCHANGED <<rvars, svars, fivars, cvars>>
  /\ UNCHANGED <<pwvars, w_start, w_end, w_stats, fw_running, fw_max, fw_cur,
                 fw_written, fw_skipped, fw_target, l_written, l_skipped,
                 l_remaining, l_cbs, l_batch, h_taken, h_indiv, h_pipe_ok,
                 h_indiv_ok, h_counted, h_crashed>>

\* RedisClient.set_value_with_ttl: SETEX; any exception is caught and False
\* is returned
set_value_with_ttl(st, ver, id, ok) ==
  IF ok THEN setex(st, ver, id, writer_entry(id)) ELSE st

\* the fallback loop with the try around the loop: the first failed
\* individual write ends the batch
WPB_Fallback_abort(w, ok) ==
  /\ w \in Workers
  /\ w_pc[w] = "fallback"
  /\ l_idx[w] <= Len(l_batch[w])
  /\ LET id == l_batch[w][l_idx[w]]
     IN /\ store' = set_value_with_ttl(store, ImportVersion, id, ok)
        /\ h_indiv' = [h_indiv EXCEPT ![id] = h_indiv[id] + 1]
        /\ h_indiv_ok' = IF ok THEN h_indiv_ok \cup {id} ELSE h_indiv_ok
        /\ h_counted' = [h_counted EXCEPT ![id] = IF ok THEN h_counted[id] + 1
                                                 ELSE h_counted[id]]
  /\ l_written' = [l_written EXCEPT ![w] = IF ok THEN l_written[w] + 1 ELSE l_written[w]]
  /\ l_idx' = [l_idx EXCEPT ![w] = l_idx[w] + 1]
  /\ IF l_idx[w] = Len(l_batch[w]) \/ ~ok
     THEN /\ l_remaining' = [l_remaining EXCEPT ![w] = l_remaining[w] - l_cbs[w]]
          /\ w_pc' = [w_pc EXCEPT ![w] = "batch"]
     ELSE UNCHANGED <<l_remaining, w_pc>>
  /\ UNCHANGED <<rvars, svars, fivars, cvars>>
  /\ UNCHANGED <<pwvars, w_start, w_end, w_stats, fw_running, fw_max, fw_cur,
                 fw_written, fw_skipped, fw_target, l_skipped, l_cbs, l_batch,
                 h_taken, h_pipe, h_pipe_ok, h_faults, h_crashed>>

\* one iteration of the fallback loop, fast_writer.py:129-135: the key at
\* l_idx is written individually and counted if that succeeded; after the
\* last key the batch is over
WPB_Fallback(w, ok) ==
  /\ w \in Workers
  /\ w_pc[w] = "fallback"
  /\ l_idx[w] <= Len(l_batch[w])
  /\ LET id == l_batch[w][l_idx[w]]
     IN /\ store' = set_value_with_ttl(store, ImportVersion, id, ok)
        /\ h_indiv' = [h_indiv EXCEPT ![id] = h_indiv[id] + 1]
        /\ h_indiv_ok' = IF ok THEN h_indiv_ok \cup {id} ELSE h_indiv_ok
        /\ h_counted' = [h_counted EXCEPT ![id] = IF ok THEN h_counted[id] + 1
                                                 ELSE h_counted[id]]
  /\ l_written' = [l_written EXCEPT ![w] = IF ok THEN l_written[w] + 1 ELSE l_written[w]]
  /\ l_idx' = [l_idx EXCEPT ![w] = l_idx[w] + 1]
  /\ IF l_idx[w] = Len(l_batch[w])
     THEN /\ l_remaining' = [l_remaining EXCEPT ![w] = l_remaining[w] - l_cbs[w]]
          /\ w_pc' = [w_pc EXCEPT ![w] = "batch"]
     ELSE UNCHANGED <<l_remaining, w_pc>>
  /\ UNCHANGED <<rvars, svars, fivars, cvars>>
  /\ UNCHANGED <<pwvars, w_start, w_end, w_stats, fw_running, fw_max, fw_cur,
                 fw_written, fw_skipped, fw_target, l_skipped, l_cbs, l_batch,
                 h_taken, h_pipe, h_pipe_ok, h_faults, h_crashed>>

\* SIGINT while a FastWriter runs in the main thread: there
\* run_continuous has installed its handler (fast_writer.py:154-155), which
\* sets FastWriter.running to False
FW_SIGINT(w) ==
  /\ w \in Workers
  /\ opc = "standalone"
  /\ w_pc[w] \in {"loop", "batch", "pipe", "fallback"}
  /\ fw_running[w]
  /\ fw_running' = [fw_running EXCEPT ![w] = FALSE]
  /\ UNCHANGED <<rvars, svars, fivars, cvars>>
  /\ UNCHANGED <<pwvars, w_pc, w_start, w_end, w_stats, fw_max, fw_cur,
                 fw_written, fw_skipped, fw_target, lvars, store, hvars>>

\* the wall clock passes start_time + duration_seconds
RC_TimeUp(w) ==
  /\ w \in Workers
  /\ w_pc[w] # "done"
  /\ fw_duration[w]
  /\ ~fw_timeup[w]
  /\ fw_timeup' = [fw_timeup EXCEPT ![w] = TRUE]
  /\ UNCHANGED <<rvars, fw_duration, h_call, fivars, cvars, pwvars, fwvars, lvars,
                 store, hvars>>

(* ----------------------------- SimpleReader ---------------------------- *)
\* keys a reader looks up
ReadIds == {0, 1}
\* values other clients put in the store
StoreValues == {Empty, Zero, Rec, Packed}
\* key 0 is given every kind of value, key 1 holds records
ValuesFor(id) == IF id = 0 THEN StoreValues ELSE {Rec}

ReadResult(id, ver, size, ok) ==
  [key_id |-> id, found_version |-> ver, value_size |-> size, success |-> ok]

\* What a GET hands to the reader: whether Python takes it as true, and the
\* length read_key_with_fallback / _read_batch_with_pipeline computes from
\* it (json.dumps of a dict, str of anything else).
Falsy == [truthy |-> FALSE, size |-> 0]

\* json.loads(value), else the string itself (redis_client.py:123-127)
json_loads(v) ==
  IF v.kind = "empty" THEN Falsy
  ELSE IF v.kind = "zero" THEN [truthy |-> FALSE, size |-> v.dumped]
  ELSE IF v.kind = "text" THEN [truthy |-> TRUE, size |-> v.raw]
  ELSE [truthy |-> TRUE, size |-> v.dumped]

\* RedisClient.get_value: None when the key is absent or the GET raised,
\* else the decoded value
get_value(st, ver, id, err) ==
  IF err THEN Falsy
  ELSE IF st[<<ver, id>>] = None THEN Falsy
  ELSE json_loads(st[<<ver, id>>])

\* a GET inside a pipeline returns the stored string undecoded (or None)
pipe_get(st, ver, id) ==
  LET v == st[<<ver, id>>]
  IN IF v = None \/ v.raw = 0 THEN Falsy ELSE [truthy |-> TRUE, size |-> v.raw]

\* a GET does not change the store
store_after_get(st, ver, id) == st

\* a primary hit that carries the fallback tag
primary_hit_fallback_tag(id, pv, value) == ReadResult(id, "v22", value.size, TRUE)

\* the result of a primary GET that gave a value (simple_reader.py:70-79)
primary_hit(id, pv, value) == ReadResult(id, pv, value.size, TRUE)

\* the fallback GET and the result made of it (simple_reader.py:83-109);
\* ferr says whether the GET raises
fallback_lookup(st, fv, id, ferr) ==
  LET value2 == get_value(st, fv, id, ferr)
  IN IF value2.truthy
     THEN ReadResult(id, fv, value2.size, TRUE)
     ELSE ReadResult(id, "None", 0, FALSE)

\* SimpleReader.read_key_with_fallback on a store no other client changes
\* between its two GETs; perr / ferr say whether the primary / the fallback
\* GET raises
read_key_with_fallback(st, pv, fv, id, perr, ferr) ==
  LET value == get_value(st, pv, id, perr)
  IN IF value.truthy
     THEN primary_hit(id, pv, value)
     ELSE fallback_lookup(st, fv, id, ferr)

\* the classification that looks at the fallback result first
classify_pair_fallback_first(id, primary_result, fallback_result, pv, fv) ==
  IF fallback_result.truthy
  THEN ReadResult(id, fv, fallback_result.size, TRUE)
  ELSE IF primary_result.truthy
  THEN ReadResult(id, pv, primary_result.size, TRUE)
  ELSE ReadResult(id, "None", 0, FALSE)

\* the GETs one read_key_with_fallback issues: the primary one, and the
\* fallback one unless the primary value was taken (simple_reader.py:69-88)
gets_sequential(st, pv, fv, id, perr, ferr) ==
  IF get_value(st, pv, id, perr).truthy THEN 1 ELSE 2

\* the GETs one pipelined request holds: a primary and a fallback one for
\* every id (simple_reader.py:133-141)
gets_pipelined(ids) == 2 * Len(ids)

\* the classification of one pair of pipeline results
\* (simple_reader.py:150-184)
classify_pair(id, primary_result, fallback_result, pv, fv) ==
  IF primary_result.truthy
  THEN ReadResult(id, pv, primary_result.size, TRUE)
  ELSE IF fallback_result.truthy
  THEN ReadResult(id, fv, fallback_result.size, TRUE)
  ELSE ReadResult(id, "None", 0, FALSE)

\* the GET at position k (from 1) of the pipelined request for ids: the
\* primary key and the fallback key of each id in turn
\* (simple_reader.py:134-142)
PipeVersion(k, pv, fv) == IF k % 2 = 1 THEN pv ELSE fv
PipeId(ids, k) == ids[(k + 1) \div 2]

\* the results made of the replies in the reverse of the order of the ids
pipeline_results_reversed(ids, replies, pv, fv) ==
  [i \in 1 .. Len(ids) |->
     LET j == Len(ids) + 1 - i
     IN classify_pair(ids[j], replies[2 * j - 1], replies[2 * j], pv, fv)]

\* the results _read_batch_with_pipeline makes of the replies execute()
\* returned, a pair of them for every id (simple_reader.py:149-186)
pipeline_results(ids, replies, pv, fv) ==
  [i \in 1 .. Len(ids) |->
     classify_pair(ids[i], replies[2 * i - 1], replies[2 * i], pv, fv)]

\* SimpleReader._read_batch_with_pipeline on a store no other client changes
\* during the call: one pipelined request of a primary and a fallback GET
\* per id; if execute() raises (fail), every id of the batch goes through
\* read_key_with_fallback, errs[i] = <<perr, ferr>>
read_batch_with_pipeline(st, pv, fv, ids, fail, errs) ==
  IF ~fail
  THEN pipeline_results(ids,
                        [k \in 1 .. gets_pipelined(ids) |->
                           pipe_get(st, PipeVersion(k, pv, fv), PipeId(ids, k))],
                        pv, fv)
  ELSE [i \in 1 .. Len(ids) |->
          read_key_with_fallback(st, pv, fv, ids[i], errs[i][1], errs[i][2])]

\* what is recorded of one lookup: the path, the failures injected, the
\* result, whether another client changed the store while the call was in
\* progress (mixed) and, if none did, the stored values the GETs met, which
\* are those of the store the call returns in
Obs(req, id, res) ==
  [path |-> req.path, key_id |-> id,
   pval |-> IF req.mixed THEN None ELSE store[<<primary_version, id>>],
   fval |-> IF req.mixed THEN None ELSE store[<<fallback_version, id>>],
   fail |-> req.fail, perr |-> req.perr, ferr |-> req.ferr, res |-> res,
   mixed |-> req.mixed]

MaxStoreWrites == 2
MaxReadBatch == 2
\* bounds of a modelled benchmark run
MaxReads == 2
MaxReadThreads == 2
MaxBenchBatch == 2
\* reads and threads of one run together
MaxBenchSize == 4
\* GET or pipeline failures injected during one run
MaxReadFaults == 1
MaxClock == 2
MaxCount == 3
\* max_daily_keys of the modelled reader
rd_max == 2

\* the callers of the reader: the main thread and the reader threads
Callers == 0 .. MaxReadThreads

NoReq == [path |-> "none", pos |-> 0, fail |-> FALSE, perr |-> FALSE,
          ferr |-> FALSE, mixed |-> FALSE]

\* no caller waits for the store
IdleRequests ==
  /\ g_pc = [c \in Callers |-> "none"]
  /\ g_ids = [c \in Callers |-> <<>>]
  /\ g_j = [c \in Callers |-> 0]
  /\ g_res = [c \in Callers |-> <<>>]
  /\ h_req = NoReq

\* the version tags are only compared with each other, so the primary one
\* is fixed to its default and the fallback one ranges over equal / different
InitLookup ==
  /\ primary_version = "v23"
  /\ fallback_version \in Versions
  /\ h_last = <<>>
  /\ h_calls = 0
  /\ h_writes = 0

\* the store changed by another client while a call is in progress
Mixed == [h_req EXCEPT !.mixed = (g_pc[0] # "none")]

\* another client stores a value (RedisClient.set_value_with_ttl)
LK_Write(ver, id, val) ==
  /\ val \in ValuesFor(id)
  /\ h_writes < MaxStoreWrites
  /\ h_writes' = h_writes + 1
  /\ store' = setex(store, ver, id, val)
  /\ h_last' = <<>>
  /\ h_calls' = 0
  /\ h_req' = Mixed
  /\ UNCHANGED <<primary_version, fallback_version>>
  /\ UNCHANGED <<wvars, bvars, g_pc, g_ids, g_j, g_res>>

\* DEL key
del(st, ver, id) == [st EXCEPT ![create_redis_key_simple(id, ver)] = None]

\* another client deletes a key that is there (RedisClient.delete_key; of
\* a key that is not there it changes nothing)
LK_Delete(ver, id) ==
  /\ store[<<ver, id>>] # None
  /\ h_writes < MaxStoreWrites
  /\ h_writes' = h_writes + 1
  /\ store' = del(store, ver, id)
  /\ h_last' = <<>>
  /\ h_calls' = 0
  /\ h_req' = Mixed
  /\ UNCHANGED <<primary_version, fallback_version>>
  /\ UNCHANGED <<wvars, bvars, g_pc, g_ids, g_j, g_res>>

\* another client empties the database (RedisClient.flush_db)
LK_Flush ==
  /\ store # EmptyStore
  /\ h_writes < MaxStoreWrites
  /\ h_writes' = h_writes + 1
  /\ store' = EmptyStore
  /\ h_last' = <<>>
  /\ h_calls' = 0
  /\ h_req' = Mixed
  /\ UNCHANGED <<primary_version, fallback_version>>
  /\ UNCHANGED <<wvars, bvars, g_pc, g_ids, g_j, g_res>>

\* the failures met by the individual lookups of a failed batch
NoErrs(n) == [i \in 1 .. n |-> <<FALSE, FALSE>>]

\* what no answer of the store changes
AnswerFrame ==
  /\ UNCHANGED <<wvars, primary_version, fallback_version, h_writes>>
  /\ UNCHANGED <<rd_mode, rd_total, rd_threads, rd_batch, rd_running,
                 rd_handler, rpc, key_offset, all_key_ids, t_pc, t_n, t_keys,
                 rd_results, rd_stats, lock, current_reads>>

\* caller c sends a request for ids and waits for the answer: the pipelined
\* request of _read_batch_with_pipeline (simple_reader.py:128-146) or the
\* primary GET of read_key_with_fallback (simple_reader.py:66-69)
Sends(c, kind, ids) ==
  /\ g_pc' = [g_pc EXCEPT ![c] = kind]
  /\ g_ids' = [g_ids EXCEPT ![c] = ids]
  /\ g_j' = [g_j EXCEPT ![c] = IF kind = "primary" THEN 1 ELSE 0]
  /\ g_res' = [g_res EXCEPT ![c] = <<>>]

\* the call caller c waited for returns res to the loop that made it:
\* worker_thread appends the result (simple_reader.py:205-206),
\* pipeline_worker_thread and read_keys_pipeline_batch extend their results
\* by the batch's (simple_reader.py:381-382, 118-119)
Returns(c, res, req) ==
  /\ g_pc' = [g_pc EXCEPT ![c] = "none"]
  /\ g_ids' = [g_ids EXCEPT ![c] = <<>>]
  /\ g_j' = [g_j EXCEPT ![c] = 0]
  /\ g_res' = [g_res EXCEPT ![c] = <<>>]
  /\ h_req' = NoReq
  /\ IF rd_mode = "none"
     THEN /\ h_last' = << Obs(req, g_ids[c][req.pos], res[req.pos]) >>
          /\ h_calls' = Min(h_calls + 1, 2)
          /\ UNCHANGED <<t_results, t_i, results_list, r_i>>
     ELSE IF rd_mode = "pipe"
     THEN /\ results_list' = results_list \o res
          /\ r_i' = r_i + rd_batch
          /\ UNCHANGED <<h_last, h_calls, t_results, t_i>>
     ELSE /\ t_results' = [t_results EXCEPT ![c] = t_results[c] \o res]
          /\ t_i' = [t_i EXCEPT ![c] =
                       t_i[c] + (IF rd_mode = "mt" THEN rd_batch ELSE 1)]
          /\ UNCHANGED <<h_last, h_calls, results_list, r_i>>

\* one read_key_with_fallback of caller c has made its result: the next id
\* of a failed batch is looked up (simple_reader.py:191), or the call returns
LookupDone(c, result, req) ==
  IF g_j[c] < Len(g_ids[c])
  THEN /\ g_pc' = [g_pc EXCEPT ![c] = "primary"]
       /\ g_j' = [g_j EXCEPT ![c] = g_j[c] + 1]
       /\ g_res' = [g_res EXCEPT ![c] = Append(g_res[c], result)]
       /\ h_req' = req
       /\ UNCHANGED <<g_ids, h_last, h_calls, t_results, t_i, results_list, r_i>>
  ELSE Returns(c, Append(g_res[c], result), req)

\* the GET failures injected: in the single lookups at the recorded
\* position, in run_benchmark up to MaxReadFaults, none in the individual
\* lookups of a failed batch of a benchmark
MayFail(c, err) ==
  err => \/ rd_mode = "none" /\ g_j[c] = h_req.pos
         \/ rd_mode = "seq" /\ h_rfaults < MaxReadFaults

\* whether the GET answered is one of the recorded lookup
Recorded(c) == rd_mode = "none" /\ g_j[c] = h_req.pos

\* the answer of the primary GET caller c waits for (simple_reader.py:69-81,
\* perr: the GET raises): a value that Python takes as true is the result,
\* anything else sends the fallback GET (simple_reader.py:84-87)
RK_Primary(c, perr) ==
  /\ c \in Callers
  /\ g_pc[c] = "primary"
  /\ MayFail(c, perr)
  /\ LET id == g_ids[c][g_j[c]]
         value == get_value(store, primary_version, id, perr)
         req == IF Recorded(c) THEN [h_req EXCEPT !.perr = perr] ELSE h_req
     IN /\ store' = store_after_get(store, primary_version, id)
        /\ IF value.truthy
           THEN LookupDone(c, primary_hit(id, primary_version, value), req)
           ELSE /\ g_pc' = [g_pc EXCEPT ![c] = "fallback"]
                /\ h_req' = req
                /\ UNCHANGED <<g_ids, g_j, g_res, h_last, h_calls, t_results,
                               t_i, results_list, r_i>>
  /\ h_rfaults' = IF perr /\ rd_mode = "seq" THEN h_rfaults + 1 ELSE h_rfaults
  /\ UNCHANGED h_failed
  /\ AnswerFrame

\* the answer of the fallback GET caller c waits for
\* (simple_reader.py:87-109, ferr: the GET raises)
RK_Fallback(c, ferr) ==
  /\ c \in Callers
  /\ g_pc[c] = "fallback"
  /\ MayFail(c, ferr)
  /\ LET id == g_ids[c][g_j[c]]
         req == IF Recorded(c) THEN [h_req EXCEPT !.ferr = ferr] ELSE h_req
     IN /\ store' = store_after_get(store, fallback_version, id)
        /\ LookupDone(c, fallback_lookup(store, fallback_version, id, ferr), req)
  /\ h_rfaults' = IF ferr /\ rd_mode = "seq" THEN h_rfaults + 1 ELSE h_rfaults
  /\ UNCHANGED h_failed
  /\ AnswerFrame

\* the server handles the next GET of the pipelined request caller c waits
\* for: the pipeline is not transactional (simple_reader.py:128), so the
\* GETs of one request are handled one at a time and other clients'
\* commands may be handled between two of them
RBP_Get(c) ==
  /\ c \in Callers
  /\ g_pc[c] = "pipe"
  /\ g_j[c] < gets_pipelined(g_ids[c])
  /\ LET k == g_j[c] + 1
         ver == PipeVersion(k, primary_version, fallback_version)
         id == PipeId(g_ids[c], k)
     IN /\ store' = store_after_get(store, ver, id)
        /\ g_res' = [g_res EXCEPT ![c] = Append(g_res[c], pipe_get(store, ver, id))]
        /\ g_j' = [g_j EXCEPT ![c] = k]
  /\ UNCHANGED <<g_pc, g_ids, h_req, h_last, h_calls, t_results, t_i,
                 results_list, r_i, h_rfaults, h_failed>>
  /\ AnswerFrame

\* a failed pipelined request gives the batch up: the call returns no result
RBP_Execute_abort(c, fail) ==
  /\ c \in Callers
  /\ g_pc[c] = "pipe"
  /\ ~fail => g_j[c] = gets_pipelined(g_ids[c])
  /\ (fail /\ rd_mode # "none") => h_rfaults < MaxReadFaults
  /\ Returns(c, IF fail THEN <<>>
                ELSE pipeline_results(g_ids[c], g_res[c], primary_version,
                                      fallback_version),
             h_req)
  /\ h_rfaults' = IF fail /\ rd_mode # "none" THEN h_rfaults + 1 ELSE h_rfaults
  /\ h_failed' = IF fail /\ rd_mode = "pipe"
                 THEN h_failed \cup {<<c, r_i>>}
                 ELSE h_failed
  /\ UNCHANGED store
  /\ AnswerFrame

\* execute() of the pipelined request caller c waits for
\* (simple_reader.py:144-191): it returns the replies once all the GETs are
\* handled and the batch's results are made of them, or it raises (fail),
\* however many GETs were handled, and the ids of the batch go through
\* read_key_with_fallback one by one
RBP_Execute(c, fail) ==
  /\ c \in Callers
  /\ g_pc[c] = "pipe"
  /\ ~fail => g_j[c] = gets_pipelined(g_ids[c])
  /\ (fail /\ rd_mode # "none") => h_rfaults < MaxReadFaults
  /\ IF ~fail
     THEN Returns(c, pipeline_results(g_ids[c], g_res[c], primary_version,
                                      fallback_version),
                  h_req)
     ELSE /\ g_pc' = [g_pc EXCEPT ![c] = "primary"]
          /\ g_j' = [g_j EXCEPT ![c] = 1]
          /\ g_res' = [g_res EXCEPT ![c] = <<>>]
          /\ h_req' = IF rd_mode = "none" THEN [h_req EXCEPT !.fail = TRUE]
                      ELSE h_req
          /\ UNCHANGED <<g_ids, h_last, h_calls, t_results, t_i,
                         results_list, r_i>>
  /\ h_rfaults' = IF fail /\ rd_mode # "none" THEN h_rfaults + 1 ELSE h_rfaults
  /\ h_failed' = IF fail /\ rd_mode = "pipe"
                 THEN h_failed \cup {<<c, r_i>>}
                 ELSE h_failed
  /\ UNCHANGED store
  /\ AnswerFrame

\* a call of read_key_with_fallback(id): its primary GET is sent
LK_Read(id) ==
  /\ rd_mode = "none"
  /\ g_pc[0] = "none"
  /\ Sends(0, "primary", <<id>>)
  /\ h_req' = [NoReq EXCEPT !.path = "seq", !.pos = 1]
  /\ UNCHANGED <<wvars, store, lkvars, bvars>>

\* a call of _read_batch_with_pipeline(ids): its pipelined request is sent;
\* the result at position k is the one recorded
LK_Batch(ids, k) ==
  /\ rd_mode = "none"
  /\ g_pc[0] = "none"
  /\ k \in 1 .. Len(ids)
  /\ Sends(0, "pipe", ids)
  /\ h_req' = [NoReq EXCEPT !.path = "pipe", !.pos = k]
  /\ UNCHANGED <<wvars, store, lkvars, bvars>>

NextLookup ==
  \/ \E ver \in Versions, id \in ReadIds, val \in StoreValues : LK_Write(ver, id, val)
  \/ \E ver \in Versions, id \in ReadIds : LK_Delete(ver, id)
  \/ LK_Flush
  \/ \E id \in ReadIds : LK_Read(id)
  \/ \E n \in 1 .. MaxReadBatch :
       \E ids \in [1 .. n -> ReadIds], k \in 1 .. n : LK_Batch(ids, k)
  \/ \E perr \in BOOLEAN : RK_Primary(0, perr)
  \/ \E ferr \in BOOLEAN : RK_Fallback(0, ferr)
  \/ \E fail \in BOOLEAN : RBP_Execute(0, fail)
  \/ RBP_Get(0)

(* --------------------------- the benchmarks ---------------------------- *)
Threads == 1 .. rd_threads

NoReadStats == [total_reads |-> 0, successful_reads |-> 0, cache_misses |-> 0,
                primary_hits |-> 0, fallback_hits |-> 0, total_data_bytes |-> 0]

Count(seq, P(_)) == Cardinality({i \in 1 .. Len(seq) : P(seq[i])})

\* SimpleReader._calculate_stats over self.results; each hit counter is a
\* filter of its own on found_version
calculate_stats(res, pv, fv) ==
  IF res = <<>> THEN NoReadStats
  ELSE LET ok(r) == r.success
           prim(r) == r.success /\ r.found_version = pv
           fall(r) == r.success /\ r.found_version = fv
       IN [total_reads |-> Len(res),
           successful_reads |-> Count(res, ok),
           cache_misses |-> Len(res) - Count(res, ok),
           primary_hits |-> Count(res, prim),
           fallback_hits |-> Count(res, fall),
           total_data_bytes |->
             SumSeq([i \in 1 .. Len(res) |->
                       IF res[i].success THEN res[i].value_size ELSE 0])]

\* the statistics loop of run_pipeline_benchmark and of
\* run_multithreaded_pipeline_benchmark: a hit is primary or else fallback
pipeline_stats(res, pv) ==
  LET ok(r) == r.success
      miss(r) == ~r.success
      prim(r) == r.success /\ r.found_version = pv
      fall(r) == r.success /\ r.found_version # pv
  IN [total_reads |-> Len(res),
      successful_reads |-> Count(res, ok),
      cache_misses |-> Count(res, miss),
      primary_hits |-> Count(res, prim),
      fallback_hits |-> Count(res, fall),
      total_data_bytes |->
        SumSeq([i \in 1 .. Len(res) |->
                  IF res[i].success THEN res[i].value_size ELSE 0])]

\* a store in which each version holds the records of the ids below a
\* cursor, as an import leaves it
PopulatedStore(n22, n23) ==
  [k \in Versions \X KeyIds |->
     IF (k[1] = "v22" /\ k[2] < n22) \/ (k[1] = "v23" /\ k[2] < n23)
     THEN writer_entry(k[2]) ELSE None]

IdleBench ==
  /\ rd_mode = "none"
  /\ rd_total = 0
  /\ rd_threads = 1
  /\ rd_batch = 1
  /\ rd_running = TRUE
  /\ rd_handler = FALSE
  /\ rpc = "idle"
  /\ r_i = 0
  /\ key_offset = 0
  /\ all_key_ids = <<>>
  /\ t_pc = <<"unstarted">>
  /\ t_n = <<0>>
  /\ t_keys = << <<>> >>
  /\ t_i = <<0>>
  /\ t_results = << <<>> >>
  /\ results_list = <<>>
  /\ rd_results = <<>>
  /\ rd_stats = "none"
  /\ lock = <<>>
  /\ current_reads = 0
  /\ h_rfaults = 0
  /\ h_failed = {}
  /\ IdleRequests

\* a fresh SimpleReader about to run one benchmark.  run_pipeline_benchmark
\* installs no SIGINT handler of its own: the reader's handler is in place
\* only if an earlier run_benchmark or run_multithreaded_pipeline_benchmark
\* of the same reader installed it.
InitBench(mode, total, nthreads, nbatch) ==
  /\ total + nthreads <= MaxBenchSize
  /\ rd_mode = mode
  /\ rd_total = total
  /\ rd_threads = nthreads
  /\ rd_batch = nbatch
  /\ rd_running = TRUE
  /\ rd_handler \in (IF mode = "pipe" THEN BOOLEAN ELSE {FALSE})
  /\ rpc = "start"
  /\ r_i = 0
  /\ key_offset = 0
  /\ all_key_ids = <<>>
  /\ t_pc = [t \in 1 .. nthreads |-> "unstarted"]
  /\ t_n = [t \in 1 .. nthreads |-> 0]
  /\ t_keys = [t \in 1 .. nthreads |-> <<>>]
  /\ t_i = [t \in 1 .. nthreads |-> 0]
  /\ t_results = [t \in 1 .. nthreads |-> <<>>]
  /\ results_list = <<>>
  /\ rd_results = <<>>
  /\ rd_stats = "none"
  /\ lock = <<>>
  /\ current_reads = 0
  /\ h_rfaults = 0
  /\ h_failed = {}
  /\ IdleRequests

\* the frame of a benchmark step
BenchFrame ==
  /\ UNCHANGED <<lkvars, wvars, store, gvars>>
  /\ UNCHANGED <<rd_mode, rd_total, rd_threads, rd_batch, rd_handler>>
  /\ UNCHANGED <<lock, current_reads>>

\* the frame of the step that installs the SIGINT handler
\* (simple_reader.py:225 and :403)
HandlerFrame ==
  /\ UNCHANGED <<lkvars, wvars, store, gvars>>
  /\ UNCHANGED <<rd_mode, rd_total, rd_threads, rd_batch>>
  /\ UNCHANGED <<lock, current_reads>>
  /\ rd_handler' = TRUE

\* the frame of a step that takes or releases the lock
LockFrame ==
  /\ UNCHANGED <<lkvars, wvars, store, gvars>>
  /\ UNCHANGED <<rd_mode, rd_total, rd_threads, rd_batch, rd_handler>>

\* a slice that ignores where it starts: seq[0 : b - a]
Slice_from_start(seq, a, b) == SubSeq(seq, 1, Min(b - a, Len(seq)))

\* seq[a+1 .. b] as Python's seq[a:b]
Slice(seq, a, b) == SubSeq(seq, a + 1, Min(b, Len(seq)))

reads_per_thread == rd_total \div rd_threads
remaining_reads == rd_total % rd_threads
\* the remainder is given to no thread
thread_reads_no_remainder(i) == reads_per_thread

\* thread_reads of loop iteration i
thread_reads(i) == reads_per_thread + (IF i < remaining_reads THEN 1 ELSE 0)

\* run_benchmark up to its thread loop (the SIGINT handler is installed;
\* self.running is left as it is)
RB_Start ==
  /\ rd_mode = "seq" /\ rpc = "start"
  /\ rpc' = "spawn"
  /\ r_i' = 0
  /\ UNCHANGED <<rd_running, key_offset, all_key_ids, t_pc, t_n, t_keys, t_i,
                 t_results, results_list, rd_results, rd_stats, h_rfaults, h_failed>>
  /\ HandlerFrame

\* run_multithreaded_pipeline_benchmark up to its thread loop: the handler
\* is installed, self.running is set and all ids are drawn
RM_Start(ids) ==
  /\ rd_mode = "mt" /\ rpc = "start"
  /\ ids \in [1 .. rd_total -> 0 .. (rd_max - 1)]
  /\ rd_running' = TRUE
  /\ all_key_ids' = ids
  /\ key_offset' = 0
  /\ rpc' = "spawn"
  /\ r_i' = 0
  /\ UNCHANGED <<t_pc, t_n, t_keys, t_i, t_results, results_list, rd_results,
                 rd_stats, h_rfaults, h_failed>>
  /\ HandlerFrame

\* one iteration of a thread loop: the thread gets its number of reads
\* (sequential mode) or its slice of the ids (multi-threaded pipelined mode)
\* and is started
R_Spawn ==
  /\ rpc = "spawn"
  /\ r_i < rd_threads
  /\ t_n' = [t_n EXCEPT ![r_i + 1] = thread_reads(r_i)]
  /\ IF rd_mode = "mt"
     THEN /\ t_keys' = [t_keys EXCEPT ![r_i + 1] =
                          Slice(all_key_ids, key_offset, key_offset + thread_reads(r_i))]
          /\ key_offset' = key_offset + thread_reads(r_i)
     ELSE UNCHANGED <<t_keys, key_offset>>
  /\ t_pc' = [t_pc EXCEPT ![r_i + 1] = "run"]
  /\ r_i' = r_i + 1
  /\ rpc' = IF r_i + 1 = rd_threads THEN "monitor" ELSE "spawn"
  /\ UNCHANGED <<rd_running, all_key_ids, t_i, t_results, results_list,
                 rd_results, rd_stats, h_rfaults, h_failed>>
  /\ BenchFrame

\* the test of the monitor loop (simple_reader.py:250, 437) fails: no
\* thread is alive or the stop flag is down, and the loop ends
R_MonitorExit ==
  /\ rpc = "monitor"
  /\ (\A t \in Threads : t_pc[t] = "done") \/ ~rd_running
  /\ rpc' = "join"
  /\ r_i' = 0
  /\ UNCHANGED <<rd_running, key_offset, all_key_ids, t_pc, t_n, t_keys, t_i,
                 t_results, results_list, rd_results, rd_stats, h_rfaults, h_failed>>
  /\ BenchFrame

\* the test of the monitor loop passes, a thread being alive (one that has
\* merged is until its function has returned) and the stop flag up: the
\* main thread sleeps for 2 s (simple_reader.py:250-251, 437-438)
R_MonitorSleep ==
  /\ rpc = "monitor"
  /\ (\E t \in Threads : t_pc[t] # "done") /\ rd_running
  /\ rpc' = "sleep"
  /\ UNCHANGED <<rd_running, r_i, key_offset, all_key_ids, t_pc, t_n, t_keys,
                 t_i, t_results, results_list, rd_results, rd_stats, h_rfaults,
                 h_failed>>
  /\ BenchFrame

\* the main thread wakes up (simple_reader.py:253-256, 440-443): if 5 s
\* have passed since the last report (due) it sets
\* current_reads = len(results_list) under the lock; then the loop's test
\* is next
R_Report(due) ==
  /\ rpc = "sleep"
  /\ due => lock = <<>>
  /\ current_reads' = IF due THEN Len(results_list) ELSE current_reads
  /\ rpc' = "monitor"
  /\ UNCHANGED <<rd_running, r_i, key_offset, all_key_ids, t_pc, t_n, t_keys,
                 t_i, t_results, results_list, rd_results, rd_stats, h_rfaults,
                 h_failed, lock>>
  /\ LockFrame

\* thread.join(timeout=5) of the next thread: it returns when the thread has
\* ended or, `timeout`, when five seconds have passed
R_Join(timeout) ==
  /\ rpc = "join"
  /\ r_i < rd_threads
  /\ t_pc[r_i + 1] = "done" \/ timeout
  /\ r_i' = r_i + 1
  /\ rpc' = IF r_i + 1 = rd_threads THEN "stats" ELSE "join"
  /\ UNCHANGED <<rd_running, key_offset, all_key_ids, t_pc, t_n, t_keys, t_i,
                 t_results, results_list, rd_results, rd_stats, h_rfaults, h_failed>>
  /\ BenchFrame

\* the end of run_benchmark: self.results = results_list.copy() under the
\* lock, then _calculate_stats
RB_Stats ==
  /\ rd_mode = "seq" /\ rpc = "stats"
  /\ rd_results' = results_list
  /\ rd_stats' = calculate_stats(results_list, primary_version, fallback_version)
  /\ rpc' = "returned"
  /\ UNCHANGED <<rd_running, r_i, key_offset, all_key_ids, t_pc, t_n, t_keys,
                 t_i, t_results, results_list, h_rfaults, h_failed>>
  /\ BenchFrame

\* the end of the two pipelined benchmarks: the statistics loop over the
\* collected results (self.results is not assigned), then the printed
\* report, whose throughput line divides by total_time
\* (simple_reader.py:358, 500): if the two readings of time.time() are
\* equal (zero) that is a ZeroDivisionError and nothing is returned
RP_Stats(zero) ==
  /\ rd_mode \in {"pipe", "mt"} /\ rpc = "stats"
  /\ IF zero
     THEN /\ rpc' = "raised"
          /\ UNCHANGED rd_stats
     ELSE /\ rd_stats' = pipeline_stats(results_list, primary_version)
          /\ rpc' = "returned"
  /\ UNCHANGED <<rd_running, r_i, key_offset, all_key_ids, t_pc, t_n, t_keys,
                 t_i, t_results, results_list, rd_results, h_rfaults, h_failed>>
  /\ BenchFrame

\* SIGINT while a handler of this reader is installed: the handler runs in
\* the main thread between any two of its instructions, also inside the
\* blocks of the lock and after the benchmark has returned, and sets
\* self.running = False
R_SIGINT ==
  /\ rd_handler
  /\ rd_running
  /\ rd_running' = FALSE
  /\ UNCHANGED <<rpc, r_i, key_offset, all_key_ids, t_pc, t_n, t_keys, t_i,
                 t_results, results_list, rd_results, rd_stats, h_rfaults, h_failed>>
  /\ BenchFrame

\* what a step of a loop that sends a request, or ends, leaves alone
LoopFrame ==
  /\ UNCHANGED <<lkvars, wvars, store, h_req>>
  /\ UNCHANGED <<rd_mode, rd_total, rd_threads, rd_batch, rd_running,
                 rd_handler, key_offset, all_key_ids, t_n, t_keys, t_i,
                 t_results, results_list, rd_results, rd_stats, lock,
                 current_reads, h_rfaults, h_failed, r_i>>

\* the top of an iteration of worker_thread's loop: the stop flag is polled,
\* a random id is drawn and read_key_with_fallback sends its primary GET;
\* after the loop the thread is ready to merge
T_Read(t, id) ==
  /\ t \in Threads
  /\ rd_mode = "seq" /\ t_pc[t] = "run" /\ g_pc[t] = "none"
  /\ id \in 0 .. (rd_max - 1)
  /\ IF t_i[t] < t_n[t] /\ rd_running
     THEN /\ Sends(t, "primary", <<id>>)
          /\ UNCHANGED t_pc
     ELSE /\ id = 0
          /\ t_pc' = [t_pc EXCEPT ![t] = "merge"]
          /\ UNCHANGED <<g_pc, g_ids, g_j, g_res>>
  /\ UNCHANGED rpc
  /\ LoopFrame

\* the top of an iteration of pipeline_worker_thread's loop: the stop flag
\* is polled, then the pipelined request for the next batch_size ids of the
\* slice is sent; after the loop the thread is ready to merge
T_Batch(t) ==
  /\ t \in Threads
  /\ rd_mode = "mt" /\ t_pc[t] = "run" /\ g_pc[t] = "none"
  /\ IF t_i[t] < Len(t_keys[t]) /\ rd_running
     THEN /\ Sends(t, "pipe", Slice(t_keys[t], t_i[t], t_i[t] + rd_batch))
          /\ UNCHANGED t_pc
     ELSE /\ t_pc' = [t_pc EXCEPT ![t] = "merge"]
          /\ UNCHANGED <<g_pc, g_ids, g_j, g_res>>
  /\ UNCHANGED rpc
  /\ LoopFrame

\* the end of a reader thread: results_list.extend(thread_results) under
\* the lock
T_Merge(t) ==
  /\ t \in Threads
  /\ t_pc[t] = "merge"
  /\ results_list' = results_list \o t_results[t]
  /\ t_pc' = [t_pc EXCEPT ![t] = "merged"]
  /\ UNCHANGED <<rd_running, rpc, r_i, key_offset, all_key_ids, t_n, t_keys,
                 t_i, t_results, rd_results, rd_stats, h_rfaults, h_failed>>
  /\ BenchFrame


\* a reader thread that has merged prints its last line and its function
\* returns (simple_reader.py:216, 392): only now is_alive() is false
T_Exit(t) ==
  /\ t \in Threads
  /\ t_pc[t] = "merged"
  /\ t_pc' = [t_pc EXCEPT ![t] = "done"]
  /\ UNCHANGED <<rd_running, rpc, r_i, key_offset, all_key_ids, t_n, t_keys,
                 t_i, t_results, results_list, rd_results, rd_stats, h_rfaults,
                 h_failed>>
  /\ BenchFrame
(* The same steps with `with self.lock` taken apart: acquiring the lock is
   a step of its own, so that a thread inside the block is a state. *)
\* a thread enters the block although the lock is held
T_Acquire_unguarded(t) ==
  /\ t \in Threads
  /\ t_pc[t] = "merge"
  /\ lock' = <<t>>
  /\ t_pc' = [t_pc EXCEPT ![t] = "locked"]
  /\ UNCHANGED <<rd_running, rpc, r_i, key_offset, all_key_ids, t_n, t_keys,
                 t_i, t_results, results_list, rd_results, rd_stats,
                 current_reads, h_rfaults, h_failed>>
  /\ LockFrame

\* `with self.lock:` at the end of worker_thread / pipeline_worker_thread
\* (simple_reader.py:213, 389): the thread waits until the lock is free
T_Acquire(t) ==
  /\ t \in Threads
  /\ t_pc[t] = "merge"
  /\ lock = <<>>
  /\ lock' = <<t>>
  /\ t_pc' = [t_pc EXCEPT ![t] = "locked"]
  /\ UNCHANGED <<rd_running, rpc, r_i, key_offset, all_key_ids, t_n, t_keys,
                 t_i, t_results, results_list, rd_results, rd_stats,
                 current_reads, h_rfaults, h_failed>>
  /\ LockFrame

\* results_list.extend(thread_results) inside the block, which is then left
T_Extend(t) ==
  /\ t \in Threads
  /\ t_pc[t] = "locked"
  /\ results_list' = results_list \o t_results[t]
  /\ lock' = <<>>
  /\ t_pc' = [t_pc EXCEPT ![t] = "merged"]
  /\ UNCHANGED <<rd_running, rpc, r_i, key_offset, all_key_ids, t_n, t_keys,
                 t_i, t_results, rd_results, rd_stats, current_reads,
                 h_rfaults, h_failed>>
  /\ LockFrame

\* the main thread wakes up and a progress report is due
\* (simple_reader.py:253-255, 440-442): `with self.lock:` is entered
R_SnapshotAcquire ==
  /\ rpc = "sleep"
  /\ lock = <<>>
  /\ lock' = <<0>>
  /\ rpc' = "snapshot"
  /\ UNCHANGED <<rd_running, r_i, key_offset, all_key_ids, t_pc, t_n, t_keys,
                 t_i, t_results, results_list, rd_results, rd_stats,
                 current_reads, h_rfaults, h_failed>>
  /\ LockFrame

\* current_reads = len(results_list) inside the block, which is then left
R_Snapshot ==
  /\ rpc = "snapshot"
  /\ current_reads' = Len(results_list)
  /\ lock' = <<>>
  /\ rpc' = "monitor"
  /\ UNCHANGED <<rd_running, r_i, key_offset, all_key_ids, t_pc, t_n, t_keys,
                 t_i, t_results, results_list, rd_results, rd_stats,
                 h_rfaults, h_failed>>
  /\ LockFrame

\* `with self.lock:` before the final copy (simple_reader.py:280, 468)
R_CopyAcquire ==
  /\ rpc = "stats"
  /\ rd_mode \in {"seq", "mt"}
  /\ lock = <<>>
  /\ lock' = <<0>>
  /\ rpc' = "copy"
  /\ UNCHANGED <<rd_running, r_i, key_offset, all_key_ids, t_pc, t_n, t_keys,
                 t_i, t_results, results_list, rd_results, rd_stats,
                 current_reads, h_rfaults, h_failed>>
  /\ LockFrame

\* the copy of results_list inside the block, then the statistics over the
\* copy: run_benchmark keeps it in self.results, the multi-threaded
\* pipelined benchmark in a local and prints a report whose throughput line
\* raises ZeroDivisionError if total_time is zero (simple_reader.py:500)
R_Copy(zero) ==
  /\ rpc = "copy"
  /\ zero => rd_mode = "mt"
  /\ IF rd_mode = "seq"
     THEN /\ rd_results' = results_list
          /\ rd_stats' = calculate_stats(results_list, primary_version,
                                         fallback_version)
     ELSE /\ UNCHANGED rd_results
          /\ rd_stats' = IF zero THEN rd_stats
                         ELSE pipeline_stats(results_list, primary_version)
  /\ lock' = <<>>
  /\ rpc' = IF zero THEN "raised" ELSE "returned"
  /\ UNCHANGED <<rd_running, r_i, key_offset, all_key_ids, t_pc, t_n, t_keys,
                 t_i, t_results, results_list, current_reads, h_rfaults,
                 h_failed>>
  /\ LockFrame

\* run_pipeline_benchmark up to read_keys_pipeline_batch: self.running is
\* set and all ids are drawn
RP_Start(ids) ==
  /\ rd_mode = "pipe" /\ rpc = "start"
  /\ ids \in [1 .. rd_total -> 0 .. (rd_max - 1)]
  /\ rd_running' = TRUE
  /\ all_key_ids' = ids
  /\ rpc' = "batches"
  /\ r_i' = 0
  /\ UNCHANGED <<key_offset, t_pc, t_n, t_keys, t_i, t_results, results_list,
                 rd_results, rd_stats, h_rfaults, h_failed>>
  /\ BenchFrame

\* the top of an iteration of read_keys_pipeline_batch's loop: the
\* pipelined request for the next batch is sent; after the loop the call
\* returns
RP_Batch ==
  /\ rd_mode = "pipe" /\ rpc = "batches" /\ g_pc[0] = "none"
  /\ IF r_i < Len(all_key_ids)
     THEN /\ Sends(0, "pipe", Slice(all_key_ids, r_i, r_i + rd_batch))
          /\ UNCHANGED rpc
     ELSE /\ rpc' = "stats"
          /\ UNCHANGED <<g_pc, g_ids, g_j, g_res>>
  /\ UNCHANGED t_pc
  /\ LoopFrame

ThreadIds == 1 .. MaxReadThreads
AllReadIds == 0 .. (rd_max - 1)
NextRead ==
  \/ RB_Start
  \/ \E n \in 0 .. MaxReads : \E ids \in [1 .. n -> AllReadIds] : RM_Start(ids)
  \/ \E n \in 0 .. MaxReads : \E ids \in [1 .. n -> AllReadIds] : RP_Start(ids)
  \/ R_Spawn
  \/ R_MonitorExit
  \/ R_MonitorSleep
  \/ \E due \in BOOLEAN : R_Report(due)
  \/ \E timeout \in BOOLEAN : R_Join(timeout)
  \/ RB_Stats
  \/ \E zero \in BOOLEAN : RP_Stats(zero)
  \/ R_SIGINT
  \/ \E t \in ThreadIds, id \in AllReadIds : T_Read(t, id)
  \/ \E t \in ThreadIds : T_Batch(t)
  \/ \E t \in ThreadIds : T_Merge(t)
  \/ \E t \in ThreadIds : T_Exit(t)
  \/ RP_Batch
  \/ \E c \in Callers, perr \in BOOLEAN : RK_Primary(c, perr)
  \/ \E c \in Callers, ferr \in BOOLEAN : RK_Fallback(c, ferr)
  \/ \E c \in Callers, fail \in BOOLEAN : RBP_Execute(c, fail)
  \/ \E c \in Callers : RBP_Get(c)

IdleLookup ==
  /\ h_last = <<>>
  /\ h_calls = 0
  /\ h_writes = 0

IdleReader ==
  /\ primary_version = "v23"
  /\ fallback_version = "v22"
  /\ IdleLookup
  /\ IdleBench

vars == <<wvars, store, rvars>>

WorkerIds == 1 .. MaxWriters

Init ==
  /\ \E T \in 1 .. MaxTotalKeys, N \in 1 .. MaxWriters : InitImport(T, N)
  /\ store = EmptyStore
  /\ IdleReader

Next ==
  \/ PW_Start
  \/ PW_Submit
  \/ \E w \in WorkerIds : PW_Collect(w)
  \/ PW_Return
  \/ SIGINT
  \/ \E w \in WorkerIds : FW_Create(w)
  \/ \E w \in WorkerIds : RC_Loop(w)
  \/ \E w \in WorkerIds, due \in BOOLEAN : WPB_Batch(w, due)
  \/ \E w \in WorkerIds, S \in SUBSET (1 .. batch_size) : WPB_ExecuteReturns(w, S)
  \/ \E w \in WorkerIds, j \in 0 .. batch_size : WPB_ExecuteRaises(w, j)
  \/ \E w \in WorkerIds, ok \in BOOLEAN : WPB_Fallback(w, ok)

Spec == Init /\ [][Next]_vars

(* the range computation alone *)
InitPartition ==
  /\ \E T \in 1 .. MaxPartKeys, N \in 1 .. MaxPartWriters : InitImport(T, N)
  /\ store = EmptyStore
  /\ IdleReader

NextPartition ==
  \/ PW_Start
  \/ PW_Submit

SpecPartition == InitPartition /\ [][NextPartition]_vars

(* one FastWriter run from the main thread: FastWriter(max_daily_keys = K)
   and run_continuous(target_keys, duration_seconds), fast_writer.py:227-256 *)
InitWriter ==
  /\ num_writers = 1
  /\ target_keys = 0
  /\ pw_running = TRUE
  /\ opc = "standalone"
  /\ sub_i = 0
  /\ yielded = {}
  /\ completed_stats = <<>>
  /\ results = "none"
  /\ w_pc = <<"loop">>
  /\ w_start = <<0>>
  /\ \E K \in 0 .. MaxTotalKeys : w_end = <<K>> /\ fw_max = <<K>>
  /\ w_stats = <<NoStats>>
  /\ fw_running = <<TRUE>>
  /\ fw_cur = <<0>>
  /\ fw_written = <<0>>
  /\ fw_skipped = <<0>>
  /\ \E t \in 0 .. MaxTotalKeys : fw_target = <<t>>
  /\ \E d \in BOOLEAN : fw_duration = <<d>>
  /\ fw_timeup = <<FALSE>>
  /\ h_call = <<>>
  /\ NoFullImport
  /\ timed = FALSE
  /\ ClockAtZero(1)
  /\ l_written = <<0>>
  /\ l_skipped = <<0>>
  /\ l_remaining = <<0>>
  /\ l_cbs = <<0>>
  /\ l_batch = << <<>> >>
  /\ l_idx = <<0>>
  /\ h_taken = << <<>> >>
  /\ h_pipe = [k \in KeyIds |-> 0]
  /\ h_indiv = [k \in KeyIds |-> 0]
  /\ h_pipe_ok = {}
  /\ h_indiv_ok = {}
  /\ h_counted = [k \in KeyIds |-> 0]
  /\ h_faults = 0
  /\ h_crashed = {}
  /\ store = EmptyStore
  /\ IdleReader

NextWriter ==
  \/ RC_Loop(1)
  \/ \E due \in BOOLEAN : WPB_Batch(1, due)
  \/ \E S \in SUBSET (1 .. batch_size) : WPB_ExecuteReturns(1, S)
  \/ \E j \in 0 .. batch_size : WPB_ExecuteRaises(1, j)
  \/ \E ok \in BOOLEAN : WPB_Fallback(1, ok)
  \/ FW_SIGINT(1)
  \/ RC_TimeUp(1)

SpecWriter == InitWriter /\ [][NextWriter]_vars

(* a FastWriter(max_daily_keys = K) whose cursor was set to a start offset,
   on which write_pipeline_batches is called directly, any number of times *)
InitCalls ==
  /\ num_writers = 1
  /\ target_keys = 0
  /\ pw_running = TRUE
  /\ opc = "direct"
  /\ sub_i = 0
  /\ yielded = {}
  /\ completed_stats = <<>>
  /\ results = "none"
  /\ w_pc = <<"idle">>
  /\ \E K \in 0 .. MaxTotalKeys : \E c \in 0 .. K :
       /\ w_end = <<K>> /\ fw_max = <<K>>
       /\ w_start = <<c>> /\ fw_cur = <<c>>
  /\ w_stats = <<NoStats>>
  /\ fw_running = <<TRUE>>
  /\ fw_written = <<0>>
  /\ fw_skipped = <<0>>
  /\ fw_target = <<0>>
  /\ fw_duration = <<FALSE>>
  /\ fw_timeup = <<FALSE>>
  /\ h_call = <<>>
  /\ NoFullImport
  /\ timed = FALSE
  /\ ClockAtZero(1)
  /\ l_written = <<0>>
  /\ l_skipped = <<0>>
  /\ l_remaining = <<0>>
  /\ l_cbs = <<0>>
  /\ l_batch = << <<>> >>
  /\ l_idx = <<0>>
  /\ h_taken = << <<>> >>
  /\ h_pipe = [k \in KeyIds |-> 0]
  /\ h_indiv = [k \in KeyIds |-> 0]
  /\ h_pipe_ok = {}
  /\ h_indiv_ok = {}
  /\ h_counted = [k \in KeyIds |-> 0]
  /\ h_faults = 0
  /\ h_crashed = {}
  /\ store = EmptyStore
  /\ IdleReader

NextCalls ==
  \/ \E count \in 0 .. MaxCount : WPB_Call(1, count)
  \/ WPB_Batch(1, FALSE)
  \/ \E S \in SUBSET (1 .. batch_size) : WPB_ExecuteReturns(1, S)
  \/ \E j \in 0 .. batch_size : WPB_ExecuteRaises(1, j)
  \/ \E ok \in BOOLEAN : WPB_Fallback(1, ok)

SpecCalls == InitCalls /\ [][NextCalls]_vars

(* run_parallel_import with the readings of time.time() on a logical clock,
   against a store whose writes succeed *)
Tick ==
  /\ timed
  /\ now < MaxClock
  /\ now' = now + 1
  /\ UNCHANGED <<timed, start_time, total_duration, total_rate, w_start_time,
                 w_duration>>
  /\ UNCHANGED <<pwvars, fwvars, lvars, svars, fivars, hvars, store, rvars>>

InitClock ==
  /\ \E N \in 1 .. MaxWriters, T \in 0 .. MaxWriters : ImportState(T, N)
  /\ NoFullImport
  /\ timed = TRUE
  /\ store = EmptyStore
  /\ IdleReader

NextClock ==
  \/ PW_Start
  \/ PW_Submit
  \/ \E w \in WorkerIds : PW_Collect(w)
  \/ PW_Return
  \/ SIGINT
  \/ \E w \in WorkerIds : FW_Create(w)
  \/ \E w \in WorkerIds : RC_Loop(w)
  \/ \E w \in WorkerIds, due \in BOOLEAN : WPB_Batch(w, due)
  \/ \E w \in Workers : WPB_ExecuteReturns(w, 1 .. Len(l_batch[w]))
  \/ Tick

SpecClock == InitClock /\ [][NextClock]_vars

(* run_full_parallel_import against a store whose writes succeed *)
InitFull ==
  /\ \E T \in 1 .. MaxTotalKeys, N \in 1 .. MaxWriters : ImportState(T, N)
  /\ fpc = "first"
  /\ v22_results = "none"
  /\ final_results = "none"
  /\ h_stopped = FALSE
  /\ timed = FALSE
  /\ store = EmptyStore
  /\ IdleReader

NextFull ==
  \/ PW_Start
  \/ PW_Submit
  \/ \E w \in WorkerIds : PW_Collect(w)
  \/ PW_Return
  \/ SIGINT
  \/ \E w \in WorkerIds : FW_Create(w)
  \/ \E w \in WorkerIds : RC_Loop(w)
  \/ \E w \in WorkerIds, due \in BOOLEAN : WPB_Batch(w, due)
  \/ \E w \in Workers : WPB_ExecuteReturns(w, 1 .. Len(l_batch[w]))
  \/ FI_Second
  \/ FI_SIGINT
  \/ FI_Return

SpecFull == InitFull /\ [][NextFull]_vars

(* the three benchmarks against a store whose lookups succeed and which
   holds the primary version of every id and nothing of the fallback *)
InitHits ==
  /\ InitImport(1, 1)
  /\ store = PopulatedStore(0, rd_max)
  /\ primary_version = "v23"
  /\ fallback_version = "v22"
  /\ IdleLookup
  /\ \E mode \in {"seq", "pipe", "mt"}, total \in 0 .. MaxReads,
        nthreads \in 1 .. MaxReadThreads, nbatch \in 1 .. MaxBenchBatch :
       /\ mode = "seq" => nbatch = 1
       /\ mode = "pipe" => nthreads = 1
       /\ InitBench(mode, total, nthreads, nbatch)

NextHits ==
  \/ RB_Start
  \/ \E n \in 0 .. MaxReads : \E ids \in [1 .. n -> AllReadIds] : RM_Start(ids)
  \/ \E n \in 0 .. MaxReads : \E ids \in [1 .. n -> AllReadIds] : RP_Start(ids)
  \/ R_Spawn
  \/ R_MonitorExit
  \/ R_MonitorSleep
  \/ \E due \in BOOLEAN : R_Report(due)
  \/ \E timeout \in BOOLEAN : R_Join(timeout)
  \/ RB_Stats
  \/ \E zero \in BOOLEAN : RP_Stats(zero)
  \/ R_SIGINT
  \/ \E t \in ThreadIds, id \in AllReadIds : T_Read(t, id)
  \/ \E t \in ThreadIds : T_Batch(t)
  \/ \E t \in ThreadIds : T_Merge(t)
  \/ \E t \in ThreadIds : T_Exit(t)
  \/ RP_Batch
  \/ \E c \in Callers : RK_Primary(c, FALSE)
  \/ \E c \in Callers : RBP_Execute(c, FALSE)
  \/ \E c \in Callers : RBP_Get(c)

SpecHits == InitHits /\ [][NextHits]_vars

(* run_multithreaded_pipeline_benchmark alone, beside a ParallelWriter set
   up for as many keys and writers as the benchmark has reads and threads;
   the store holds the primary version of every id but the last *)
InitMt ==
  /\ \E total \in 0 .. MaxReads, nthreads \in 1 .. MaxReadThreads,
        nbatch \in 1 .. MaxBenchBatch :
       /\ InitImport(total, nthreads)
       /\ InitBench("mt", total, nthreads, nbatch)
  /\ store = PopulatedStore(0, rd_max - 1)
  /\ primary_version = "v23"
  /\ fallback_version = "v22"
  /\ IdleLookup

NextMt ==
  \/ \E n \in 0 .. MaxReads : \E ids \in [1 .. n -> AllReadIds] : RM_Start(ids)
  \/ R_Spawn
  \/ R_MonitorExit
  \/ R_MonitorSleep
  \/ \E due \in BOOLEAN : R_Report(due)
  \/ \E timeout \in BOOLEAN : R_Join(timeout)
  \/ \E zero \in BOOLEAN : RP_Stats(zero)
  \/ R_SIGINT
  \/ \E t \in ThreadIds : T_Batch(t)
  \/ \E t \in ThreadIds : T_Merge(t)
  \/ \E t \in ThreadIds : T_Exit(t)
  \/ \E t \in ThreadIds, fail \in BOOLEAN : RBP_Execute(t, fail)
  \/ \E t \in ThreadIds : RBP_Get(t)
  \/ \E t \in ThreadIds : RK_Primary(t, FALSE)
  \/ \E t \in ThreadIds : RK_Fallback(t, FALSE)

SpecMt == InitMt /\ [][NextMt]_vars

(* run_pipeline_benchmark alone, over a store in which the primary version
   is fully populated; key 0 may have been rewritten by a client that packs
   its JSON *)
InitPipe ==
  /\ InitImport(1, 1)
  /\ \E val \in {Rec, Packed} :
       store = setex(PopulatedStore(0, rd_max), "v23", 0, val)
  /\ primary_version = "v23"
  /\ fallback_version = "v22"
  /\ IdleLookup
  /\ \E total \in 0 .. MaxReads, nbatch \in 1 .. MaxBenchBatch :
       InitBench("pipe", total, 1, nbatch)

NextPipe ==
  \/ \E n \in 0 .. MaxReads : \E ids \in [1 .. n -> AllReadIds] : RP_Start(ids)
  \/ RP_Batch
  \/ \E fail \in BOOLEAN : RBP_Execute(0, fail)
  \/ RBP_Get(0)
  \/ RK_Primary(0, FALSE)
  \/ \E zero \in BOOLEAN : RP_Stats(zero)
  \/ R_SIGINT

SpecPipe == InitPipe /\ [][NextPipe]_vars

(* the two multi-threaded benchmarks with the lock's blocks taken apart,
   over a fully populated primary version *)
InitLock ==
  /\ InitImport(1, 1)
  /\ store = PopulatedStore(0, rd_max)
  /\ primary_version = "v23"
  /\ fallback_version = "v22"
  /\ IdleLookup
  /\ \E mode \in {"seq", "mt"}, total \in 0 .. MaxReads,
        nthreads \in 1 .. MaxReadThreads, nbatch \in 1 .. MaxBenchBatch :
       /\ mode = "seq" => nbatch = 1
       /\ InitBench(mode, total, nthreads, nbatch)

NextLock ==
  \/ RB_Start
  \/ \E n \in 0 .. MaxReads : \E ids \in [1 .. n -> AllReadIds] : RM_Start(ids)
  \/ R_Spawn
  \/ R_SnapshotAcquire
  \/ R_Snapshot
  \/ R_MonitorExit
  \/ R_MonitorSleep
  \/ R_Report(FALSE)
  \/ \E timeout \in BOOLEAN : R_Join(timeout)
  \/ R_CopyAcquire
  \/ \E zero \in BOOLEAN : R_Copy(zero)
  \/ R_SIGINT
  \/ \E t \in ThreadIds, id \in AllReadIds : T_Read(t, id)
  \/ \E t \in ThreadIds : T_Batch(t)
  \/ \E t \in ThreadIds, perr \in BOOLEAN : RK_Primary(t, perr)
  \/ \E t \in ThreadIds, ferr \in BOOLEAN : RK_Fallback(t, ferr)
  \/ \E t \in ThreadIds, fail \in BOOLEAN : RBP_Execute(t, fail)
  \/ \E t \in ThreadIds : RBP_Get(t)
  \/ \E t \in ThreadIds : T_Acquire(t)
  \/ \E t \in ThreadIds : T_Extend(t)
  \/ \E t \in ThreadIds : T_Exit(t)

SpecLock == InitLock /\ [][NextLock]_vars

(* single lookups *)
InitLookupSpec ==
  /\ InitImport(1, 1)
  /\ store = EmptyStore
  /\ InitLookup
  /\ IdleBench

SpecLookup == InitLookupSpec /\ [][NextLookup]_vars

(* single lookups of one key, which other clients give every kind of value
   under both versions *)
NextOneKey ==
  \/ \E ver \in Versions, val \in StoreValues : LK_Write(ver, 0, val)
  \/ \E ver \in Versions : LK_Delete(ver, 0)
  \/ LK_Flush
  \/ LK_Read(0)
  \/ \E n \in 1 .. MaxReadBatch :
       \E k \in 1 .. n : LK_Batch([i \in 1 .. n |-> 0], k)
  \/ \E perr \in BOOLEAN : RK_Primary(0, perr)
  \/ \E ferr \in BOOLEAN : RK_Fallback(0, ferr)
  \/ \E fail \in BOOLEAN : RBP_Execute(0, fail)
  \/ RBP_Get(0)

SpecOneKey == InitLookupSpec /\ [][NextOneKey]_vars

(* the read benchmarks *)
InitRead ==
  /\ InitImport(1, 1)
  /\ \E n22 \in 0 .. rd_max, n23 \in 0 .. rd_max : store = PopulatedStore(n22, n23)
  /\ primary_version = "v23"
  /\ fallback_version \in Versions
  /\ IdleLookup
  /\ \E mode \in {"seq", "pipe", "mt"}, total \in 0 .. MaxReads,
        nthreads \in 1 .. MaxReadThreads, nbatch \in 1 .. MaxBenchBatch :
       /\ mode = "pipe" => nthreads = 1
       /\ mode = "seq" => nbatch = 1
       /\ InitBench(mode, total, nthreads, nbatch)

SpecRead == InitRead /\ [][NextRead]_vars

(* run_benchmark alone: the sequential mode over a store in which an import
   of the primary version has reached the last id or stopped one short of it *)
InitSeq ==
  /\ InitImport(1, 1)
  /\ \E n23 \in {rd_max - 1, rd_max} : store = PopulatedStore(0, n23)
  /\ primary_version = "v23"
  /\ fallback_version = "v22"
  /\ IdleLookup
  /\ \E total \in 0 .. MaxReads, nthreads \in 1 .. MaxReadThreads :
       InitBench("seq", total, nthreads, 1)

NextSeq ==
  \/ RB_Start
  \/ R_Spawn
  \/ R_MonitorExit
  \/ R_MonitorSleep
  \/ \E due \in BOOLEAN : R_Report(due)
  \/ \E timeout \in BOOLEAN : R_Join(timeout)
  \/ RB_Stats
  \/ R_SIGINT
  \/ \E t \in ThreadIds, id \in AllReadIds : T_Read(t, id)
  \/ \E t \in ThreadIds, perr \in BOOLEAN : RK_Primary(t, perr)
  \/ \E t \in ThreadIds, ferr \in BOOLEAN : RK_Fallback(t, ferr)
  \/ \E t \in ThreadIds : T_Merge(t)
  \/ \E t \in ThreadIds : T_Exit(t)

SpecSeq == InitSeq /\ [][NextSeq]_vars

(* ------------------------------- claims -------------------------------- *)
\* the ids a..b-1 in order
RangeSeq(a, b) == [i \in 1 .. (b - a) |-> a + i - 1]

\* C1: for 1 <= num_writers <= target_keys, once every range is computed
\* worker i (0-indexed) has [i*perWorker, (i+1)*perWorker), the last one
\* extended by the remainder; the ranges are contiguous, within
\* [0, target_keys), and every id of [0, target_keys) lies in exactly one.
C1_PartitionCoverage ==
  (opc = "collect" /\ num_writers <= target_keys) =>
    LET per == target_keys \div num_writers
        r == target_keys % num_writers
    IN /\ \A w \in Workers :
            /\ w_start[w] = (w - 1) * per
            /\ w_end[w] = IF w = num_writers THEN w * per + r ELSE w * per
            /\ 0 <= w_start[w] /\ w_start[w] <= w_end[w] /\ w_end[w] <= target_keys
       /\ \A w \in 1 .. (num_writers - 1) : w_end[w] = w_start[w + 1]
       /\ \A id \in 0 .. (target_keys - 1) :
            Cardinality({w \in Workers : w_start[w] <= id /\ id < w_end[w]}) = 1

C1_Witness ==
  /\ opc = "collect"
  /\ target_keys = 7 /\ num_writers = 3
  /\ w_start[3] = 4 /\ w_end[3] = 7

\* C2: an import that returns uninterrupted and met no store failure reports
\* total_keys_written = target_keys and total_keys_skipped = 0, whatever the
\* interleaving of its workers.
C2_AllWritten ==
  (opc = "returned" /\ pw_running /\ h_faults = 0) =>
    /\ results.total_keys_written = target_keys
    /\ results.total_keys_skipped = 0

C2_Witness ==
  /\ opc = "returned" /\ pw_running /\ h_faults = 0
  /\ target_keys = 3 /\ num_writers = 2
  /\ results.total_keys_written = 3
  /\ w_stats[1].keys_written = 1 /\ w_stats[2].keys_written = 2

\* C3: the cursor of a FastWriter never passes its max_daily_keys.
C3_CursorBound == \A w \in Workers : fw_cur[w] <= fw_max[w]

\* a batch cut short by the bound: fewer ids than current_batch_size
C3_Witness ==
  \E w \in Workers :
    /\ w_pc[w] = "pipe"
    /\ Len(l_batch[w]) < l_cbs[w]
    /\ fw_cur[w] = fw_max[w]

\* a batch of w is over for id: id was taken and is not in a batch whose
\* request or fallback is still going on
BatchOver(w, id) ==
  /\ id \in SeqSet(h_taken[w])
  /\ ~(w_pc[w] \in {"pipe", "fallback"} /\ id \in SeqSet(l_batch[w]))

InCall(w) == w_pc[w] \in {"batch", "pipe", "fallback"}

C7_State ==
  \A w \in Workers :
    /\ \A id \in SeqSet(h_taken[w]) :
         BatchOver(w, id) =>
           IF id \in h_pipe_ok
           THEN h_indiv[id] = 0
           ELSE /\ h_indiv[id] = 1
                /\ h_counted[id] = IF id \in h_indiv_ok THEN 1 ELSE 0
    /\ w_pc[w] = "fallback" =>
         \A i \in 1 .. Len(l_batch[w]) :
           h_indiv[l_batch[w][i]] = IF i < l_idx[w] THEN 1 ELSE 0
    /\ fw_written[w] + (IF InCall(w) THEN l_written[w] ELSE 0)
         = SumSeq([i \in 1 .. Len(h_taken[w]) |-> h_counted[h_taken[w][i]]])

C7_Step ==
  \A w \in Workers :
    w_pc[w] = "fallback" => w_pc'[w] \in {"fallback", "batch"}

\* C7: when the pipelined request of a batch raises, every key of the batch
\* gets one individual write, also after an individual write failed; a key
\* is counted in `written` exactly if its write succeeded; and the fallback
\* loop always hands over to the next batch of the call.
C7_FallbackPolicy == []C7_State /\ [][C7_Step]_vars

\* a batch of two whose request raised: the first individual write failed,
\* the second was still made and counted
C7_Witness ==
  \E w \in Workers :
    /\ w_pc[w] = "batch"
    /\ Len(l_batch[w]) = 2
    /\ l_batch[w][1] \notin h_pipe_ok
    /\ h_indiv[l_batch[w][1]] = 1 /\ l_batch[w][1] \notin h_indiv_ok
    /\ h_indiv[l_batch[w][2]] = 1 /\ l_batch[w][2] \in h_indiv_ok
    /\ l_written[w] = 1

\* C8: a Batch Writer that has ended an uninterrupted run has consumed
\* exactly the ids of its range, each once.
C8_RangeConsumed ==
  \A w \in Workers :
    (w_pc[w] = "done" /\ pw_running) => h_taken[w] = RangeSeq(w_start[w], w_end[w])

\* C9: a key is submitted at most once in a pipelined request and at most
\* once individually, individually only if its pipelined request raised; a
\* key whose pipelined request returned is submitted exactly once.
C9_NoRetry ==
  \A id \in KeyIds :
    /\ h_pipe[id] <= 1
    /\ h_indiv[id] <= 1
    /\ h_indiv[id] = 1 => (h_pipe[id] = 1 /\ id \notin h_pipe_ok)
    /\ id \in h_pipe_ok => h_pipe[id] + h_indiv[id] = 1

\* one key submitted twice, another in a returned request once
C9_Witness ==
  \E a, b \in KeyIds :
    /\ h_pipe[a] = 1 /\ h_indiv[a] = 1 /\ a \notin h_pipe_ok
    /\ b \in h_pipe_ok /\ h_pipe[b] = 1 /\ h_indiv[b] = 0

\* C10: once the stop signal has set ParallelWriter.running to False, no
\* Batch Writer begins another write call (it may finish the one in flight).
C10_StopHaltsWriters ==
  [][\A w \in Workers :
       (~pw_running /\ w_pc[w] = "loop") => w_pc'[w] # "batch"]_vars

(* lookups *)
Tier(o) ==
  IF ~o.res.success THEN "miss"
  ELSE IF o.res.found_version = primary_version THEN "primary"
  ELSE "secondary"

\* the value is there, not empty, and its GET did not fail
Present(v, err) == v # None /\ v.raw > 0 /\ ~err

\* C4: with distinct version tags, every lookup made on one store state (no
\* other client changed the store during the call) reports primary exactly
\* when the primary value is present, secondary exactly when it is not (or
\* its GET failed) and the secondary value is present, a miss exactly when
\* neither is.
C4_FallbackPriority ==
  primary_version # fallback_version =>
    \A i \in DOMAIN h_last :
      LET o == h_last[i]
          p == Present(o.pval, o.perr)
          f == Present(o.fval, o.ferr)
      IN ~o.mixed =>
         /\ (Tier(o) = "primary") <=> p
         /\ (Tier(o) = "secondary") <=> (~p /\ f)
         /\ (Tier(o) = "miss") <=> (~p /\ ~f)

\* C5: the ReadStats a benchmark returns satisfy
\* successful_reads + cache_misses = total_reads and
\* primary_hits + fallback_hits = successful_reads.
C5_CounterConservation ==
  rpc = "returned" =>
    /\ rd_stats.successful_reads + rd_stats.cache_misses = rd_stats.total_reads
    /\ rd_stats.primary_hits + rd_stats.fallback_hits = rd_stats.successful_reads

SameLookup(a, b) == a.path = b.path /\ a.key_id = b.key_id

\* a step of the reader, not of another client
ReaderStep == h_writes' = h_writes

\* C6: no step of a lookup changes the store, and the results of a call
\* (tier, success flag, payload size) equal those of the same lookups in the
\* call before it when no other client changed the store since that call
\* began, on the sequential and on the pipelined path.
C6_IdempotentRead ==
  [][ReaderStep =>
       /\ store' = store
       /\ \A i \in DOMAIN h_last, j \in DOMAIN h_last' :
            (~h_last[i].mixed /\ SameLookup(h_last[i], h_last'[j]))
              => h_last'[j].res = h_last[i].res]_vars

(* the orchestrator *)
\* keys the launched workers have counted as written
WrittenByWorkers == SumSeq([w \in 1 .. num_writers |-> fw_written[w]])

\* C11: the aggregate returned by an interrupted run_parallel_import has
\* total_keys_written equal to the keys written by all launched workers and
\* a report for every launched worker (stated for the runs in which no
\* worker raised).
C11_InterruptedTotals ==
  (opc = "returned" /\ ~pw_running /\ h_crashed = {}) =>
    /\ results.total_keys_written = WrittenByWorkers
    /\ Len(results.writer_stats) = num_writers

C12_State == opc = "returned" => \A w \in Workers : w_pc[w] = "done"
C12_Step == opc = "returned" => (store' = store /\ fwvars' = fwvars)

\* C12: run_parallel_import has returned only when every launched worker
\* has finished, interrupted or not; after the return no worker moves and
\* the store is not written.
C12_ReturnAfterWorkers == []C12_State /\ [][C12_Step]_vars

\* an interrupted run of two workers has returned, one report not collected
C12_Witness ==
  /\ opc = "returned" /\ ~pw_running
  /\ num_writers = 2
  /\ yielded # Workers
  /\ \E w \in Workers : fw_written[w] > 0

\* C13: the ids consumed by two different workers are disjoint, no id is
\* submitted in two pipelined requests or counted twice, and the aggregate
\* total counts no id twice.
C13_DisjointWorkers ==
  /\ \A i, j \in Workers :
       i # j => SeqSet(h_taken[i]) \cap SeqSet(h_taken[j]) = {}
  /\ \A w \in Workers :
       Cardinality(SeqSet(h_taken[w])) = Len(h_taken[w])
  /\ \A id \in KeyIds : h_pipe[id] <= 1 /\ h_counted[id] <= 1
  /\ opc = "returned" =>
       results.total_keys_written <= Cardinality({id \in KeyIds : h_counted[id] = 1})

\* two workers, both with counted keys, have finished
C13_Witness ==
  /\ opc = "returned" /\ pw_running
  /\ num_writers = 2 /\ target_keys = 4
  /\ h_taken[1] = <<0, 1>> /\ h_taken[2] = <<2, 3>>
  /\ results.total_keys_written = 4

(* one FastWriter *)
\* C14: once FastWriter.running is False the writer prepares and submits no
\* further pipelined batch at a batch boundary.  (The first batch of a call
\* is exempt: the flag was polled at the top of the loop of run_continuous,
\* and may have been set since.)
C14_StopAtBatchBoundary ==
  [][\A w \in Workers :
       (~fw_running[w] /\ w_pc[w] = "batch" /\ w_pc'[w] = "pipe")
         => l_remaining[w] = write_count]_vars

\* C16: the loop of run_continuous is left only at the top of an iteration
\* and only because the target is reached, the duration has elapsed, the
\* cursor is at the key-space bound or the stop flag is down; and a write
\* call begun with the cursor below the bound advances the cursor.
C16_ExitReasons ==
  [][\A w \in Workers :
       /\ (w_pc[w] # "done" /\ w_pc'[w] = "done")
            => (w_pc[w] = "loop" /\ ExitCondition(w))
       /\ (w_pc[w] = "loop" /\ ~ExitCondition(w)) => w_pc'[w] \in {"loop", "batch"}
       /\ (w_pc[w] = "batch" /\ w_pc'[w] = "pipe") => fw_cur'[w] > fw_cur[w] ]_vars

\* C17: no error escapes run_continuous, whatever the writes did.
C17_NoErrorEscapes == \A w \in Workers : w \notin h_crashed

(* the readers' stop flag *)
\* C15: once SimpleReader.running is False no reader starts another lookup
\* or sends another pipelined batch: a caller that waits for no answer sends
\* no request (the call in flight still returns its results, and results
\* already made may still be merged into the shared list).
C15_ReadersStop ==
  [][~rd_running =>
       \A c \in Callers : g_pc[c] = "none" => g_pc'[c] = "none"]_vars

\* lookups the reader threads have made
LookupsMade == SumSeq([t \in 1 .. rd_threads |-> Len(t_results[t])])

\* C18: the ReadStats returned by a multi-threaded benchmark count every
\* lookup the reader threads have made, interrupted or not.
C18_AllLookupsCounted ==
  (rd_mode \in {"seq", "mt"} /\ rpc = "returned") =>
    rd_stats.total_reads = LookupsMade

\* C20: in run_benchmark thread i (0-indexed) is given
\* total_reads div num_threads reads, one more if i < total_reads mod
\* num_threads, and makes no more than that; every id looked up is in
\* [0, max_daily_keys); an uninterrupted run makes all of them and returns
\* total_reads = total_reads asked for.
C20_SequentialShares ==
  rd_mode = "seq" =>
    /\ rpc \notin {"start", "spawn"} =>
         \A t \in Threads :
           t_n[t] = (rd_total \div rd_threads)
                      + (IF t - 1 < rd_total % rd_threads THEN 1 ELSE 0)
    /\ \A t \in Threads :
         /\ t_pc[t] # "unstarted" => Len(t_results[t]) <= t_n[t]
         /\ \A i \in 1 .. Len(t_results[t]) :
              t_results[t][i].key_id \in 0 .. (rd_max - 1)
    /\ (rpc = "returned" /\ rd_running) =>
         /\ \A t \in Threads : Len(t_results[t]) = t_n[t]
         /\ SumSeq([t \in 1 .. rd_threads |-> t_n[t]]) = rd_total
         /\ rd_stats.total_reads = rd_total

\* one read over two threads, uninterrupted: thread 0 makes it, thread 1
\* makes none
C20_Witness ==
  /\ rd_mode = "seq" /\ rpc = "returned" /\ rd_running
  /\ rd_total = 1 /\ rd_threads = 2
  /\ t_n = <<1, 0>>
  /\ Len(t_results[1]) = 1 /\ Len(t_results[2]) = 0
  /\ rd_stats.total_reads = 1

\* C19: run_full_parallel_import runs the two imports strictly in sequence:
\* the second import is entered only when every Batch Writer of the first
\* has finished and the first has returned its result, keys of the first
\* version are written only during the first import and keys of the second
\* only during the second; the returned combined total_keys_written and
\* total_keys_skipped are the sums of the two per-version results.
C19_State ==
  /\ fpc = "second" => v22_results.version = "v22"
  /\ fpc = "returned" =>
       /\ final_results.v22_results = v22_results
       /\ final_results.v23_results = results
       /\ final_results.v22_results.version = "v22"
       /\ final_results.v23_results.version = "v23"
       /\ final_results.total_keys_written =
            final_results.v22_results.total_keys_written
              + final_results.v23_results.total_keys_written
       /\ final_results.total_keys_skipped =
            final_results.v22_results.total_keys_skipped
              + final_results.v23_results.total_keys_skipped
C19_Step ==
  /\ (fpc = "first" /\ fpc' = "second") =>
       (opc = "returned" /\ \A w \in Workers : w_pc[w] = "done")
  /\ \A k \in KeyIds :
       /\ store'[<<"v22", k>>] # store[<<"v22", k>>] => fpc = "first"
       /\ store'[<<"v23", k>>] # store[<<"v23", k>>] => fpc = "second"
C19_SequentialVersions == []C19_State /\ [][C19_Step]_vars

\* a full import by two writers that returned, with keys of both versions
\* written and reported
C19_Witness ==
  /\ fpc = "returned"
  /\ num_writers = 2
  /\ final_results.v22_results.total_keys_written > 0
  /\ final_results.v23_results.total_keys_written > 0
  /\ final_results.total_keys_written =
       final_results.v22_results.total_keys_written
         + final_results.v23_results.total_keys_written
  /\ \E k \in KeyIds : store[<<"v22", k>>] # None /\ store[<<"v23", k>>] # None

\* the position in all_key_ids at which the slice of thread t starts, if
\* the slices are laid end to end
SliceStart(t) == SumSeq([u \in 1 .. (t - 1) |-> Len(t_keys[u])])
KeyIdsOf(res) == [i \in 1 .. Len(res) |-> res[i].key_id]

\* C21: in run_multithreaded_pipeline_benchmark the slices handed to the
\* threads are contiguous pieces of the pre-generated id sequence, laid end to
\* end from position 0 and together covering it; a thread looks up the ids of
\* its own slice in order, none twice; an uninterrupted run has looked up
\* every position once and returns total_reads = total_reads asked for.
C21_DisjointSlices ==
  rd_mode = "mt" =>
    /\ \A t \in Threads :
         t_pc[t] # "unstarted" =>
           /\ SliceStart(t) + Len(t_keys[t]) <= Len(all_key_ids)
           /\ t_keys[t] = SubSeq(all_key_ids, SliceStart(t) + 1,
                                  SliceStart(t) + Len(t_keys[t]))
           /\ Len(t_results[t]) <= Len(t_keys[t])
           /\ KeyIdsOf(t_results[t]) = SubSeq(t_keys[t], 1, Len(t_results[t]))
    /\ rpc = "spawn" => key_offset = SliceStart(r_i + 1)
    /\ rpc \notin {"start", "spawn"} => SliceStart(rd_threads + 1) = rd_total
    /\ (rpc \in {"returned", "raised"} /\ rd_running) =>
         /\ \A t \in Threads : t_pc[t] = "done" /\ KeyIdsOf(t_results[t]) = t_keys[t]
         /\ Len(results_list) = rd_total
    /\ (rpc = "returned" /\ rd_running) => rd_stats.total_reads = rd_total

\* two ids over two threads, uninterrupted: each thread looked up its own
C21_Witness ==
  /\ rd_mode = "mt" /\ rpc = "returned" /\ rd_running
  /\ rd_total = 2 /\ rd_threads = 2
  /\ all_key_ids = <<0, 1>>
  /\ t_keys = << <<0>>, <<1>> >>
  /\ KeyIdsOf(t_results[1]) = <<0>> /\ KeyIdsOf(t_results[2]) = <<1>>
  /\ rd_stats.total_reads = 2

\* C22: the slice of thread i in the multi-threaded pipelined mode has the
\* bounds of write partition i for as many keys as reads and as many writers
\* as threads: start i * (total div n), the last one taking the remainder.
C22_SlicesAsPartitions ==
  (rd_mode = "mt" /\ rpc \notin {"start", "spawn"}
     /\ target_keys = rd_total /\ num_writers = rd_threads) =>
    \A t \in Threads :
      /\ SliceStart(t) = range_start(t - 1)
      /\ SliceStart(t) + Len(t_keys[t]) = range_end(t - 1)

\* the first position of the batch that holds position j (from 1) of the ids
BatchStart(j) == ((j - 1) \div rd_batch) * rd_batch

\* C23: in read_keys_pipeline_batch a batch whose pipelined request failed
\* is resolved id by id through read_key_with_fallback, one result per id;
\* every other batch, before or after it, is resolved from its own pipelined
\* request; the failure does not end the run: all ids get their result.
C23_BatchFallback ==
  rd_mode = "pipe" =>
    /\ rpc = "batches" => Len(results_list) = Min(r_i, rd_total)
    /\ rpc \in {"stats", "returned", "raised"} => Len(results_list) = rd_total
    /\ rpc = "returned" => rd_stats.total_reads = rd_total
    /\ \A j \in 1 .. Len(results_list) :
         LET id == all_key_ids[j]
         IN results_list[j] =
              IF <<0, BatchStart(j)>> \in h_failed
              THEN read_key_with_fallback(store, primary_version,
                                          fallback_version, id, FALSE, FALSE)
              ELSE classify_pair(id, pipe_get(store, primary_version, id),
                                 pipe_get(store, fallback_version, id),
                                 primary_version, fallback_version)

\* two batches of one id each, both of key 0 stored packed: the first batch
\* failed and was resolved by get_value (size of the re-dumped record), the
\* second by its pipeline (size of the stored string)
C23_Witness ==
  /\ rd_mode = "pipe" /\ rpc = "returned"
  /\ rd_batch = 1 /\ all_key_ids = <<0, 0>>
  /\ h_failed = {<<0, 0>>}
  /\ store[<<"v23", 0>>] = Packed
  /\ results_list[1].value_size = Packed.dumped
  /\ results_list[2].value_size = Packed.raw
  /\ rd_stats.total_reads = 2

\* C24: in run_benchmark and run_multithreaded_pipeline_benchmark the shared
\* results list is touched only by the holder of the lock: a thread is inside
\* its merge block exactly when it holds the lock and the main thread is
\* inside a snapshot or the final copy exactly when it does, so at most one
\* of them is inside at a time; a thread appends to its own list only while
\* it runs, merges that whole list in one step inside the block and is then
\* done for good.
C24_State ==
  rd_mode \in {"seq", "mt"} =>
    /\ \A t \in Threads : t_pc[t] = "locked" <=> lock = <<t>>
    /\ rpc \in {"snapshot", "copy"} <=> lock = <<0>>
    /\ Cardinality({t \in Threads : t_pc[t] = "locked"})
         + (IF rpc \in {"snapshot", "copy"} THEN 1 ELSE 0) <= 1
C24_Step ==
  rd_mode \in {"seq", "mt"} =>
    /\ results_list' # results_list =>
         \E t \in Threads :
           /\ lock = <<t>> /\ t_pc[t] = "locked" /\ t_pc'[t] = "merged"
           /\ results_list' = results_list \o t_results[t]
    /\ (current_reads' # current_reads \/ rd_results' # rd_results
          \/ (rpc # "returned" /\ rpc' = "returned")) => lock = <<0>>
    /\ \A t \in Threads :
         /\ t_results'[t] # t_results[t] =>
              (t_pc[t] = "run" /\ results_list' = results_list)
         /\ t_pc[t] \in {"merged", "done"} => t_pc'[t] \in {"merged", "done"}
C24_LockDiscipline == []C24_State /\ [][C24_Step]_vars

\* the main thread is inside its snapshot block after thread 1 has merged its
\* one result and before that thread's function has returned, while thread
\* 2, its own result ready, waits for the lock
C24_Witness ==
  /\ rd_mode \in {"seq", "mt"}
  /\ rd_threads = 2
  /\ rpc = "snapshot"
  /\ lock = <<0>>
  /\ t_pc = <<"merged", "merge">>
  /\ Len(results_list) = 1 /\ Len(t_results[2]) = 1

StrictlyIncreasing(q) == \A i \in 1 .. (Len(q) - 1) : q[i] < q[i + 1]

\* C25: within one FastWriter the ids are attempted in strictly increasing
\* order: the ids its cursor hands out increase over the whole run, a batch
\* holds its ids in increasing order, the SETEX of a pipelined request take
\* effect in that order (those done before the request raises are the first
\* ones of the batch), the individual writes of a fallback go through the batch from
\* its lowest id up, and the cursor never decreases.  Nothing relates the
\* progress of two workers.
C25_State ==
  \A w \in Workers :
    /\ StrictlyIncreasing(h_taken[w])
    /\ StrictlyIncreasing(l_batch[w])
C25_Step ==
  \A w \in Workers :
    /\ fw_cur'[w] >= fw_cur[w]
    /\ (w_pc[w] = "pipe" /\ w_pc'[w] = "fallback") =>
         \A a, b \in 1 .. Len(l_batch[w]) :
           (a < b /\ store'[<<ImportVersion, l_batch[w][b]>>]
                       # store[<<ImportVersion, l_batch[w][b]>>])
             => store'[<<ImportVersion, l_batch[w][a]>>] # None
    /\ (w_pc[w] = "fallback" /\ l_idx'[w] # l_idx[w]) =>
         /\ l_idx'[w] = l_idx[w] + 1
         /\ h_indiv'[l_batch[w][l_idx[w]]] = h_indiv[l_batch[w][l_idx[w]]] + 1
         /\ \A k \in 1 .. (l_idx[w] - 1) :
              /\ l_batch[w][k] < l_batch[w][l_idx[w]]
              /\ h_indiv[l_batch[w][k]] >= 1
         /\ \A k \in (l_idx[w] + 1) .. Len(l_batch[w]) :
              h_indiv'[l_batch[w][k]] = 0
C25_IncreasingOrder == []C25_State /\ [][C25_Step]_vars

\* one writer whose first batch <<0, 1>> went through the individual-write
\* fallback and whose second batch <<2>> is about to be sent
C25_Witness ==
  /\ num_writers = 1
  /\ h_taken[1] = <<0, 1, 2>>
  /\ w_pc[1] = "pipe" /\ l_batch[1] = <<2>>
  /\ h_indiv[0] = 1 /\ h_indiv[1] = 1 /\ h_indiv[2] = 0

\* the time at which task w left run_continuous
WorkerEnd(w) == w_start_time[w] + w_duration[w]

\* C27: the report's total_duration spans the parallel phase: the
\* orchestrator's clock reading is taken no later than any task's start and
\* its duration ends no earlier than any task's end, so it is at least the
\* duration of every reported task; total_rate is total_keys_written over
\* total_duration, and 0 when total_duration is 0.
C27_ReportSpan ==
  (timed /\ opc = "returned") =>
    /\ \A i \in 1 .. Len(results.writer_stats) :
         w_duration[results.writer_stats[i].writer_id] <= total_duration
    /\ \A w \in Workers :
         /\ start_time <= w_start_time[w]
         /\ WorkerEnd(w) <= start_time + total_duration
    /\ total_rate = IF total_duration = 0 THEN <<0, 1>>
                    ELSE <<results.total_keys_written, total_duration>>

\* two reported tasks ran side by side: the report's duration is less than
\* the sum of theirs, and the rate is the quotient
C27_Witness ==
  /\ timed
  /\ opc = "returned"
  /\ Len(results.writer_stats) = 2
  /\ w_duration[1] > 0
  /\ w_duration[2] > 0
  /\ total_duration < w_duration[1] + w_duration[2]
  /\ results.total_keys_written > 0
  /\ total_rate = <<results.total_keys_written, total_duration>>

\* C28: with the primary version of every id in [0, max_daily_keys) stored,
\* no fallback version stored and every lookup succeeding, the statistics a
\* benchmark of any of the three strategies returns count every read as a
\* primary hit: primary_hits = successful_reads = total_reads, no fallback
\* hit and no miss.
C28_AllPrimaryHits ==
  rpc = "returned" =>
    /\ rd_stats.primary_hits = rd_stats.successful_reads
    /\ rd_stats.successful_reads = rd_stats.total_reads
    /\ rd_stats.fallback_hits = 0
    /\ rd_stats.cache_misses = 0
    /\ \A i \in 1 .. Len(results_list) :
         results_list[i].success /\ results_list[i].found_version = "v23"

\* a multi-threaded pipelined benchmark of two reads over two threads
\* returned its statistics
C28_Witness ==
  /\ rpc = "returned"
  /\ rd_mode = "mt"
  /\ rd_threads = 2
  /\ Len(t_results[1]) = 1 /\ Len(t_results[2]) = 1
  /\ rd_stats.total_reads = 2
  /\ rd_stats.primary_hits = 2

\* the ids from a up to b - 1, in order
Ascending(a, b) == [i \in 1 .. (b - a) |-> a + i - 1]

\* C29 (states): the cursor has moved from the start offset over consecutive
\* ids and is at most K; a pipelined request holds between 1 and batch_size
\* keys; a returned call that began at cursor c with `count` left the cursor
\* at c + min(count, K - c), and one that began at K returned (0, 0).
C29_State ==
  /\ w_start[1] <= fw_cur[1]
  /\ fw_cur[1] <= fw_max[1]
  /\ h_taken[1] = Ascending(w_start[1], fw_cur[1])
  /\ w_pc[1] = "pipe" => Len(l_batch[1]) \in 1 .. batch_size
  /\ (h_call # <<>> /\ w_pc[1] = "idle") =>
       /\ fw_cur[1] = h_call[1] + Min(h_call[2], fw_max[1] - h_call[1])
       /\ h_call[1] = fw_max[1] => (l_written[1] = 0 /\ l_skipped[1] = 0)

\* C29 (steps): the cursor never decreases, and from the entry of a call
\* that begins at cursor = K on, no step touches the store, submits a write
\* or moves the cursor.
C29_Step ==
  /\ fw_cur'[1] >= fw_cur[1]
  /\ (h_call' # <<>> /\ h_call'[1] = fw_max[1]) =>
       /\ store' = store
       /\ h_pipe' = h_pipe
       /\ h_indiv' = h_indiv
       /\ fw_cur' = fw_cur

\* C29: the cursor starts at the start offset and never decreases; a call
\* write_pipeline_batches(count, batch_size) advances it by exactly
\* min(count, K - cursor) in requests of at most batch_size keys; at
\* cursor = K every later call does nothing and returns (0, 0).
C29_CursorAdvance == []C29_State /\ [][C29_Step]_vars

\* a call for 2 ids made at cursor = K = 4 has returned, after calls that
\* moved the cursor from the start offset 1 over 3 ids
C29_Witness ==
  /\ opc = "direct"
  /\ w_pc[1] = "idle"
  /\ h_call = <<4, 2>>
  /\ fw_max[1] = 4
  /\ h_taken[1] = <<1, 2, 3>>
  /\ l_written[1] = 0

\* the ids stored under a version
StoredIds(ver) == {k \in KeyIds : store[<<ver, k>>] # None}

\* C30: in a second import entered with the ParallelWriter's stop flag
\* already set, no step writes to the store, and the total the import
\* reports is the number of keys it wrote.
C30_NoWritesAfterStop ==
  /\ [][(h_stopped /\ fpc = "second") => store' = store]_vars
  /\ []((h_stopped /\ fpc = "second" /\ opc = "returned") =>
          results.total_keys_written = Cardinality(StoredIds("v23")))

\* C31: a run with a target T > 0 never has keys_written above
\* T + write_count - 1 (the target is checked between write calls of
\* write_count keys), and neither the count nor the cursor passes the
\* key-space bound K.
C31_TargetOvershoot ==
  \A w \in Workers :
    /\ fw_target[w] > 0 => fw_written[w] <= fw_target[w] + write_count - 1
    /\ fw_written[w] <= fw_max[w]
    /\ (w_pc[w] # "unsubmitted" /\ w_pc[w] # "created") => fw_cur[w] <= fw_max[w]

\* a run with target 1 over 4 ids has stopped after one write call, with
\* 3 = 1 + write_count - 1 keys written
C31_Witness ==
  /\ opc = "standalone"
  /\ w_pc[1] = "done"
  /\ fw_target[1] = 1
  /\ fw_max[1] = 4
  /\ fw_written[1] = 3
  /\ fw_cur[1] = 3

\* C32: in every state of a writer, keys_written + keys_skipped, together
\* with the counters of the write call in progress, is at most the number
\* of ids the cursor has consumed since the start offset, and no id is
\* counted more than once, whatever pipelined and individual writes fail.
C32_CountedBound ==
  /\ \A w \in Workers :
       (w_pc[w] # "unsubmitted" /\ w_pc[w] # "created") =>
         /\ fw_written[w] + fw_skipped[w] <= fw_cur[w] - w_start[w]
         /\ InCall(w) =>
              fw_written[w] + fw_skipped[w] + l_written[w] + l_skipped[w]
                <= fw_cur[w] - w_start[w]
  /\ \A k \in KeyIds : h_counted[k] <= 1

\* a task with a start offset above 0 has ended with every consumed id
\* counted, one of them written by the fallback after its pipelined
\* request had failed
C32_Witness ==
  \E w \in Workers :
    /\ w_start[w] > 0
    /\ w_pc[w] = "done"
    /\ fw_written[w] > 0
    /\ fw_written[w] = fw_cur[w] - w_start[w]
    /\ \E k \in SeqSet(h_taken[w]) :
         h_pipe[k] = 1 /\ h_indiv[k] = 1 /\ h_counted[k] = 1

\* C33: no key is ever counted as skipped, by a writer, in a task's stats
\* or in an aggregate report, and every id the cursor has consumed is in
\* the batch about to be submitted or was submitted in a pipelined request.
C33_NoSkips ==
  /\ \A w \in Workers :
       /\ fw_skipped[w] = 0
       /\ l_skipped[w] = 0
       /\ w_stats[w].keys_skipped = 0
       /\ \A k \in SeqSet(h_taken[w]) :
            \/ w_pc[w] = "pipe" /\ k \in SeqSet(l_batch[w])
            \/ h_pipe[k] >= 1
  /\ \A i \in 1 .. Len(completed_stats) : completed_stats[i].keys_skipped = 0
  /\ opc = "returned" => results.total_keys_skipped = 0

\* an import by two tasks has returned a report of 4 keys written
C33_Witness ==
  /\ opc = "returned"
  /\ Len(results.writer_stats) = 2
  /\ results.total_keys_written = 4
  /\ results.total_keys_skipped = 0
  /\ \A k \in 0 .. 3 : h_pipe[k] = 1

\* the ids task w has consumed that are stored under the import's version
StoredOf(w) == {k \in SeqSet(h_taken[w]) : store[<<ImportVersion, k>>] # None}

\* C34: every id counted as written is in the store under the key of the
\* writer's version and that id, holding the record of sample id mod
\* sample_count with the configured TTL; a writer's keys_written (with the
\* count of its running call) is at most the number of its keys stored.
C34_CountedPresent ==
  /\ \A k \in KeyIds :
       h_counted[k] >= 1 =>
         LET e == store[<<ImportVersion, k>>]
         IN /\ e.kind = "rec"
            /\ e.sample = k % sample_count
            /\ e.ttl = key_ttl_seconds
  /\ \A w \in Workers :
       (w_pc[w] # "unsubmitted" /\ w_pc[w] # "created") =>
         fw_written[w] + (IF InCall(w) THEN l_written[w] ELSE 0)
           <= Cardinality(StoredOf(w))

\* a task has ended with id 3 counted and stored with sample 0, and with a
\* key that a failed pipeline had applied and whose individual write
\* failed: stored but not counted
C34_Witness ==
  \E w \in Workers :
    /\ w_pc[w] = "done"
    /\ h_counted[3] = 1
    /\ 3 \in SeqSet(h_taken[w])
    /\ store[<<"v22", 3>>].sample = 0
    /\ \E k \in SeqSet(h_taken[w]) :
         /\ h_counted[k] = 0
         /\ h_indiv[k] = 1
         /\ store[<<"v22", k>>] # None
    /\ fw_written[w] < Cardinality(StoredOf(w))

\* a stored value that is absent or a non-empty record
RecordOrAbsent(v) == v.kind \in {"none", "rec", "packed"}

\* C35: on every store whose values under the two keys of an id are absent
\* or non-empty records, read_key_with_fallback and _read_batch_with_pipeline
\* report the same version tag and the same success flag for the id; the
\* sequential lookup issues one GET on a primary hit and two otherwise, the
\* pipelined one always two.  Every lookup made by either path on such a
\* store, no request failing and no other client changing the store
\* meanwhile, has reported that tag and flag.
C35_LookupEquivalence ==
  \A id \in ReadIds :
    (/\ RecordOrAbsent(store[<<primary_version, id>>])
     /\ RecordOrAbsent(store[<<fallback_version, id>>])) =>
      LET seq == read_key_with_fallback(store, primary_version,
                                        fallback_version, id, FALSE, FALSE)
          pipe == read_batch_with_pipeline(store, primary_version,
                                           fallback_version, <<id>>, FALSE,
                                           << <<FALSE, FALSE>> >>)[1]
          gets == gets_sequential(store, primary_version, fallback_version,
                                  id, FALSE, FALSE)
      IN /\ seq.key_id = pipe.key_id
         /\ seq.found_version = pipe.found_version
         /\ seq.success = pipe.success
         /\ gets = (IF store[<<primary_version, id>>] # None THEN 1 ELSE 2)
         /\ gets_pipelined(<<id>>) = 2
         /\ \A i \in DOMAIN h_last :
              LET o == h_last[i]
              IN (/\ o.key_id = id /\ ~o.mixed
                  /\ ~o.perr /\ ~o.ferr) =>
                   /\ o.res.found_version = seq.found_version
                   /\ o.res.success = seq.success

\* key 0 has a packed primary record and a fallback record: a pipelined
\* lookup, its two GETs sent, has just reported the primary tag, which the
\* sequential lookup reports after one GET
C35_Witness ==
  /\ fallback_version = "v22"
  /\ store[<<"v23", 0>>] = Packed
  /\ store[<<"v22", 0>>] = Rec
  /\ h_last # <<>>
  /\ h_last[1].path = "pipe"
  /\ ~h_last[1].fail
  /\ ~h_last[1].mixed
  /\ h_last[1].key_id = 0
  /\ h_last[1].res.found_version = "v23"
  /\ gets_sequential(store, "v23", "v22", 0, FALSE, FALSE) = 1
  /\ gets_pipelined(<<0>>) = 2

\* C36: while read_keys_pipeline_batch runs, its results are the Read
\* Results of the ids of the batches done so far, one per id in the order of
\* the input; once it has returned there is exactly one result per input id
\* and result j has the key id of input j, whichever batches fell back to
\* individual lookups.
C36_OneResultPerId ==
  rd_mode = "pipe" =>
    /\ rpc = "batches" =>
         KeyIdsOf(results_list) =
           SubSeq(all_key_ids, 1, Min(r_i, Len(all_key_ids)))
    /\ rpc \in {"stats", "returned", "raised"} =>
         KeyIdsOf(results_list) = all_key_ids

\* the call for the ids <<1, 0>> in batches of one has returned two
\* results in that order, the first batch having fallen back
C36_Witness ==
  /\ rd_mode = "pipe"
  /\ rpc = "stats"
  /\ rd_batch = 1
  /\ all_key_ids = <<1, 0>>
  /\ h_failed = {<<0, 0>>}
  /\ KeyIdsOf(results_list) = <<1, 0>>

\* the report of task w in an aggregate report
ReportsOf(w) ==
  {i \in 1 .. Len(results.writer_stats) : results.writer_stats[i].writer_id = w}

\* C37: a task that is done and whose writer did not raise has consumed
\* its whole range; an uninterrupted import returns exactly num_writers
\* reports, one per task: zero counters with the task's range and version
\* for a task whose writer raised, the writer's own counters for the others.
C37_FailureIsolated ==
  /\ \A w \in Workers :
       (w_pc[w] = "done" /\ w \notin h_crashed) =>
         /\ h_taken[w] = Ascending(range_start(w - 1), range_end(w - 1))
         /\ w_stats[w].keys_written = fw_written[w]
  /\ (opc = "returned" /\ pw_running) =>
       /\ Len(results.writer_stats) = num_writers
       /\ results.num_writers = num_writers
       /\ \A w \in Workers :
            /\ Cardinality(ReportsOf(w)) = 1
            /\ \A i \in ReportsOf(w) :
                 results.writer_stats[i] =
                   WriterStats(w, IF w \in h_crashed THEN 0 ELSE fw_written[w],
                               0, range_start(w - 1), range_end(w - 1),
                               ImportVersion)

\* an uninterrupted import of 3 keys by two tasks has returned; the writer
\* of task 1 raised, task 2 wrote its two keys and both are reported
C37_Witness ==
  /\ opc = "returned"
  /\ pw_running
  /\ target_keys = 3
  /\ h_crashed = {1}
  /\ h_taken[1] = <<0>>
  /\ Len(results.writer_stats) = 2
  /\ fw_written[2] = 2
  /\ results.total_keys_written = 2

\* the store keys an import of ImportVersion with target_keys may change
ImportKeys == {ImportVersion} \X (0 .. target_keys - 1)

\* C38: no step of an import changes a store key outside
\* {(V, id) : 0 <= id < totalKeys}, V the version being imported: the keys
\* of the other version and the keys of V from totalKeys on keep their
\* values.
C38_Frame ==
  [][\A k \in (Versions \X KeyIds) \ ImportKeys : store'[k] = store[k]]_vars

\* the v23 import of 3 keys by two tasks is under way: ip:v23:0 is stored,
\* the three v22 keys are as the first import wrote them and nothing is
\* stored from id 3 on
C38_Witness ==
  /\ fpc = "second"
  /\ target_keys = 3
  /\ num_writers = 2
  /\ store[<<"v23", 0>>] = writer_entry(0)
  /\ store[<<"v23", 2>>] = None
  /\ \A k \in 0 .. 2 : store[<<"v22", k>>] = writer_entry(k)
  /\ \A k \in KeyIds : k >= 3 => store[<<"v22", k>>] = None /\ store[<<"v23", k>>] = None

\* C26: after any of the three benchmarks has returned, the results the
\* reader keeps (self.results, from which print_results takes the response
\* times) are the results of that run.
C26_RecordedResults ==
  rpc = "returned" =>
    /\ rd_results = results_list
    /\ Len(rd_results) = rd_stats.total_reads

====
